---- MODULE Spec2Model ----
(***************************************************************************)
(* Attendance backend: the geofenced check-in / check-out handlers and the *)
(* credential core (lockout counter, device registry), as state machines   *)
(* over the document store.  Every handler is cut at its awaits: one       *)
(* action per storage round trip, together with the synchronous code that  *)
(* runs up to it.                                                           *)
(*                                                                         *)
(* Time is a millisecond clock.  Coordinates lie on one meridian: a        *)
(* latitude is a whole number of grid steps and the great-circle distance  *)
(* of two points of a meridian is the arc between their latitudes.         *)
(* workingHours is kept in hundredths of an hour.  An optional (nullable)  *)
(* field is << >> for null and <<v>> for the value v.                      *)
(***************************************************************************)
EXTENDS Integers, Sequences, FiniteSets, TLC

\* ---------------------------------------------------------------- bounds
NumAttReq == 2          \* attendance requests in flight at once
NumAuthReq == 2         \* auth requests in flight at once
MaxAttTicks == 2        \* short clock steps of the attendance specifications
MaxAuthTicks == 2       \* clock steps of the credential specification
MaxSessionTicks == 2
MaxLegacyFailures == 2
MaxResetTokens == 2     \* reset tokens forgotPassword may draw
MaxDeviceIds == 4       \* distinct device identifiers
MaxLat == 2             \* latitudes 0..MaxLat (0 is the falsy coordinate)
MaxOffices == 1         \* office locations the admin may create
MaxRecords == 2         \* attendance records, created or being created
MaxHoursTicks == 2      \* clock steps of the working-hours specification

AttStepMs == 12 * 60 * 60 * 1000    \* one attendance clock step: 12 hours
AuthStepMs == 15 * 60 * 1000        \* one credential clock step: 15 minutes
DayMs == 24 * 60 * 60 * 1000
HourMs == 1000 * 60 * 60
AttHorizon == MaxAttTicks * AttStepMs
HoursStepMs == 522000               \* 8 min 42 s: 14.5 hundredths of an hour
HoursHorizon == MaxHoursTicks * HoursStepMs
StepMeters == 2 * 50                \* metres between neighbouring latitudes
Meridian == 70 + 3                  \* the one non-zero longitude of the model
Radii == {0, 5, 50}                 \* radius inputs (0: not supplied)
FenceRadii == {0, 5, 2 * 50, 5000 + 1}  \* not supplied, too small, one step, too large
FenceLatitudes == 0..(MaxLat + 1)       \* one step further than Latitudes

None == << >>
Some(v) == <<v>>

Users == {"u1"}
AttReqs == 1..NumAttReq
Latitudes == 0..MaxLat
Longitudes == {0, Meridian}
WorkModes == {"Office", "WFH", "Remote"}

VARIABLES now, attendance, offices, attReq, users, authReq, issued, tokens,
          geo

vars == <<now, attendance, offices, attReq, users, authReq, issued, tokens,
          geo>>

authVars == <<users, authReq, issued, tokens>>

attVars == <<attendance, offices, attReq>>

\* ------------------------------------------------------------- helpers
Abs(x) == IF x < 0 THEN -x ELSE x

\* utils/helpers calculateDistance, on one meridian: R * c with the
\* longitudes equal is the arc between the two latitudes.
CalculateDistance(lat1, lon1, lat2, lon2) == StepMeters * Abs(lat2 - lat1)

\* utils/helpers calculateDistance in full, the Haversine formula, in
\* fixed point: angles in whole degrees that are multiples of 30, sines
\* and cosines in hundredths (cut off, so that a never exceeds 1), the
\* arc c in degrees.
SinTable == <<0, 25, 50, 70, 86, 96, 100>>      \* sin 0, 15, ..., 90 degrees

RECURSIVE Sine(_)
Sine(x) ==
    IF x < 0 THEN -Sine(-x)
    ELSE IF x > 180 THEN -Sine(x - 180)
    ELSE IF x > 90 THEN Sine(180 - x)
    ELSE SinTable[(x \div 15) + 1]

Cosine(x) == Sine(90 - x)

\* Math.sqrt of n / 10000, in hundredths.
Isqrt(n) == CHOOSE r \in 0..100 : r * r <= n /\ n < (r + 1) * (r + 1)

\* Math.atan2(y, x) for y, x >= 0, in degrees.
Atan2(y, x) ==
    CHOOSE t \in {0, 15, 30, 45, 60, 75, 90} :
        /\ Sine(t) * x <= Cosine(t) * y
        /\ \A u \in {0, 15, 30, 45, 60, 75, 90} :
              Sine(u) * x <= Cosine(u) * y => u <= t

MetresPerDegree == 111195                       \* R * Math.PI / 180

\* A Haversine formula that takes both cosines at the first point.
HaversineOneCosine(lat1, lon1, lat2, lon2) ==
    LET s1 == Sine((lat2 - lat1) \div 2)
        s2 == Sine((lon2 - lon1) \div 2)
        a == s1 * s1 + (Cosine(lat1) * Cosine(lat1) * s2 * s2) \div 10000
        c == 2 * Atan2(Isqrt(a), Isqrt(10000 - a))
    IN  MetresPerDegree * c

Haversine(lat1, lon1, lat2, lon2) ==
    LET s1 == Sine((lat2 - lat1) \div 2)
        s2 == Sine((lon2 - lon1) \div 2)
        a == s1 * s1 + (Cosine(lat1) * Cosine(lat2) * s2 * s2) \div 10000
        c == 2 * Atan2(Isqrt(a), Isqrt(10000 - a))
    IN  MetresPerDegree * c

\* utils/helpers formatDate: the calendar day of an instant.
FormatDate(t) == t \div DayMs

\* ------------------------------------------------- Number arithmetic
\* A JavaScript Number above zero is a binary64 value: a significand of
\* 53 bits, held here in three limbs a (17 bits), b and c (18 bits each),
\* and the exponent e of its leading bit:
\* value = (a * 2^36 + b * 2^18 + c) * 2^(e - 52).
RECURSIVE Pow2(_)
Pow2(n) == IF n = 0 THEN 1 ELSE 2 * Pow2(n - 1)

Limb == Pow2(18)

\* num / den brought to 1 <= num / den < 2, with the power of two taken out.
RECURSIVE Scale(_, _, _)
Scale(num, den, e) ==
    IF num >= 2 * den THEN Scale(num, 2 * den, e + 1)
    ELSE IF num < den THEN Scale(2 * num, den, e - 1)
    ELSE [num |-> num, den |-> den, e |-> e]

\* One step of long division in base 2: the next binary digit of r / den
\* is appended to digits, and k counts the digits still to be produced.
NextDigit(x) ==
    [rem |-> (2 * x.rem) % x.den, den |-> x.den, k |-> x.k - 1,
     digits |-> 2 * x.digits + (2 * x.rem) \div x.den]

\* The next k binary digits of rem / den appended to digits, and what
\* remains. Each step is computed before the next one starts.
RECURSIVE Digits(_)
Digits(x) ==
    IF x.k = 0 THEN x
    ELSE CHOOSE out \in {Digits(y) : y \in {NextDigit(x)}} : TRUE

\* The next significand up.
RoundUp(d) ==
    IF d.c + 1 < Limb THEN [d EXCEPT !.c = d.c + 1]
    ELSE IF d.b + 1 < Limb THEN [d EXCEPT !.c = 0, !.b = d.b + 1]
    ELSE IF d.a + 1 < Pow2(17) THEN [d EXCEPT !.c = 0, !.b = 0, !.a = d.a + 1]
    ELSE [a |-> Pow2(16), b |-> 0, c |-> 0, e |-> d.e + 1]

\* Round to nearest, ties to even: rest is what lies beyond the last bit
\* of d, half is half a unit of that bit.
Nearest(d, rest, half) ==
    IF rest > half \/ (rest = half /\ d.c % 2 = 1) THEN RoundUp(d) ELSE d

\* The Number num / den, for whole num and den above zero.
Divide(num, den) ==
    LET s == Scale(num, den, 0)
        hi == Digits([rem |-> s.num - s.den, den |-> s.den, k |-> 16,
                      digits |-> 1])
        mid == Digits([rem |-> hi.rem, den |-> s.den, k |-> 18, digits |-> 0])
        lo == Digits([rem |-> mid.rem, den |-> s.den, k |-> 18, digits |-> 0])
    IN  Nearest([a |-> hi.digits, b |-> mid.digits, c |-> lo.digits, e |-> s.e],
                2 * lo.rem, s.den)

\* The Number d * 100: the exact product has 59 or 60 bits and is rounded
\* back to 53.
Times100(d) ==
    LET c1 == d.c * 100
        b1 == d.b * 100 + c1 \div Limb
        a1 == d.a * 100 + b1 \div Limb
        c == c1 % Limb
        b == b1 % Limb
        s == IF a1 < Pow2(23) THEN 6 ELSE 7
        cut == Pow2(s)
        up == Pow2(18 - s)
    IN  Nearest([a |-> a1 \div cut, b |-> b \div cut + (a1 % cut) * up,
                 c |-> c \div cut + (b % cut) * up, e |-> d.e + s],
                2 * (c % cut), cut)

\* Math.round(d) = floor(d + 1/2), for d below 2^16: limb a holds the
\* whole part and the half bit.
MathRound(d) ==
    LET t == 16 - d.e
    IN  IF t > 17 THEN 0
        ELSE (d.a \div Pow2(t)) + ((d.a \div Pow2(t - 1)) % 2)

\* utils/helpers calculateWorkingHours: Math.round(hours * 100) / 100
\* with hours = diff / 3600000, both in Number arithmetic; the result is
\* in hundredths of an hour. The clock never runs backwards, so diff >= 0.
CalculateWorkingHours(checkInTime, checkOutTime) ==
    LET diff == checkOutTime - checkInTime
    IN  IF diff = 0 THEN 0
        ELSE MathRound(Times100(Divide(diff, HourMs)))

\* Attendance.findOne({userId, date}): the first matching document in
\* insertion order, 0 when there is none.
MatchingIds(uid, date) ==
    {i \in 1..Len(attendance) :
        attendance[i].userId = uid /\ attendance[i].date = date}

Min(S) == CHOOSE x \in S : \A y \in S : x <= y

FindAttendance(uid, date) ==
    IF MatchingIds(uid, date) = {} THEN 0 ELSE Min(MatchingIds(uid, date))

\* OfficeLocation.findOne({isActive: true})
ActiveOffices == {i \in 1..Len(offices) : offices[i].isActive}

FindActiveOffice == IF ActiveOffices = {} THEN 0 ELSE Min(ActiveOffices)

Response(status, code) == [status |-> status, code |-> code]

NoResponse == Response(0, "")

IdleReq ==
    [op |-> "none", pc |-> "done", user |-> "", latitude |-> 0, longitude |-> 0,
     workMode |-> "", today |-> 0, id |-> 0, time |-> 0, hours |-> 0,
     resp |-> NoResponse]

\* A finished request keeps its handler, its account and its response.
Finished(r, status, code) ==
    [IdleReq EXCEPT !.op = r.op, !.user = r.user, !.resp = Response(status, code)]

Reply(p, status, code) ==
    attReq' = [attReq EXCEPT ![p] = Finished(attReq[p], status, code)]

\* A request takes the first free slot.
Free(p) ==
    /\ attReq[p].pc = "done"
    /\ \A q \in AttReqs : q < p => attReq[q].pc # "done"

\* Check-ins past their validation that have not answered yet.
OpenCheckIns(ops) ==
    {p \in AttReqs : attReq[p].op \in ops /\ attReq[p].pc # "done"}

\* The model admits a check-in while the store has room for its record.
Room(ops) == Len(attendance) + Cardinality(OpenCheckIns(ops)) < MaxRecords

\* ------------------------------------------------------------ checkIn
\* Steps 1-2 up to the await of Attendance.findOne.
CheckInStart(p, u, lat, lng, wm) ==
    /\ Free(p)
    /\ Room({"checkIn"})
    /\ IF lat = 0 \/ lng = 0
       THEN attReq' = [attReq EXCEPT ![p] =
                [IdleReq EXCEPT !.op = "checkIn", !.user = u,
                                !.resp = Response(400, "MISSING_LOCATION")]]
       ELSE IF wm \notin {"Office", "WFH"}
       THEN attReq' = [attReq EXCEPT ![p] =
                [IdleReq EXCEPT !.op = "checkIn", !.user = u,
                                !.resp = Response(400, "INVALID_WORK_MODE")]]
       ELSE attReq' = [attReq EXCEPT ![p] =
                [IdleReq EXCEPT !.op = "checkIn", !.pc = "findExisting",
                                !.user = u, !.latitude = lat, !.longitude = lng,
                                !.workMode = wm, !.today = FormatDate(now)]]
    /\ UNCHANGED <<now, attendance, offices, authVars, geo>>

\* Attendance.findOne answers; the duplicate check; for WFH the arguments
\* of Attendance.create are evaluated.
CheckInFindExisting(p) ==
    /\ attReq[p].op = "checkIn" /\ attReq[p].pc = "findExisting"
    /\ IF FindAttendance(attReq[p].user, attReq[p].today) # 0
       THEN Reply(p, 400, "ALREADY_CHECKED_IN")
       ELSE IF attReq[p].workMode = "Office"
       THEN attReq' = [attReq EXCEPT ![p].pc = "findOffice"]
       ELSE attReq' = [attReq EXCEPT ![p].pc = "create", ![p].time = now]
    /\ UNCHANGED <<now, attendance, offices, authVars, geo>>

\* The 400 of the geofence: Math.round(distance), which leaves the whole
\* metres of CalculateDistance as they are, and the office's radius.
OutOfOfficeRadius(distance, radius) ==
    [status |-> 400, code |-> "OUT_OF_OFFICE_RADIUS",
     distance |-> distance, allowedRadius |-> radius]

\* A geofence check that also refuses a check-in on the boundary.
CheckInFindOfficeInside(p) ==
    /\ attReq[p].op = "checkIn" /\ attReq[p].pc = "findOffice"
    /\ IF FindActiveOffice = 0
       THEN Reply(p, 404, "OFFICE_NOT_CONFIGURED")
       ELSE IF CalculateDistance(attReq[p].latitude, attReq[p].longitude,
                                 offices[FindActiveOffice].latitude,
                                 offices[FindActiveOffice].longitude)
                 >= offices[FindActiveOffice].radius
       THEN attReq' = [attReq EXCEPT ![p] =
                [Finished(attReq[p], 400, "OUT_OF_OFFICE_RADIUS") EXCEPT !.resp =
                    OutOfOfficeRadius(
                        CalculateDistance(attReq[p].latitude, attReq[p].longitude,
                                          offices[FindActiveOffice].latitude,
                                          offices[FindActiveOffice].longitude),
                        offices[FindActiveOffice].radius)]]
       ELSE attReq' = [attReq EXCEPT ![p].pc = "create", ![p].time = now]
    /\ UNCHANGED <<now, attendance, offices, authVars, geo>>

\* OfficeLocation.findOne answers; the geofence check.
CheckInFindOffice(p) ==
    /\ attReq[p].op = "checkIn" /\ attReq[p].pc = "findOffice"
    /\ IF FindActiveOffice = 0
       THEN Reply(p, 404, "OFFICE_NOT_CONFIGURED")
       ELSE IF CalculateDistance(attReq[p].latitude, attReq[p].longitude,
                                 offices[FindActiveOffice].latitude,
                                 offices[FindActiveOffice].longitude)
                 > offices[FindActiveOffice].radius
       THEN attReq' = [attReq EXCEPT ![p] =
                [Finished(attReq[p], 400, "OUT_OF_OFFICE_RADIUS") EXCEPT !.resp =
                    OutOfOfficeRadius(
                        CalculateDistance(attReq[p].latitude, attReq[p].longitude,
                                          offices[FindActiveOffice].latitude,
                                          offices[FindActiveOffice].longitude),
                        offices[FindActiveOffice].radius)]]
       ELSE attReq' = [attReq EXCEPT ![p].pc = "create", ![p].time = now]
    /\ UNCHANGED <<now, attendance, offices, authVars, geo>>

\* A record whose anchor is written latitude first.
NewAttendanceLatitudeFirst(r) ==
    [userId |-> r.user, workMode |-> r.workMode, checkInTime |-> r.time,
     checkInLocation |-> <<r.latitude, r.longitude>>,
     checkOutTime |-> None, checkOutLocation |-> None,
     wfhCheckoutRadius |-> 100, status |-> "checked-in",
     workingHours |-> 0, date |-> r.today]

NewAttendance(r) ==
    [userId |-> r.user, workMode |-> r.workMode, checkInTime |-> r.time,
     checkInLocation |-> <<r.longitude, r.latitude>>,
     checkOutTime |-> None, checkOutLocation |-> None,
     wfhCheckoutRadius |-> 100, status |-> "checked-in",
     workingHours |-> 0, date |-> r.today]

\* Attendance.create is applied by the store (no unique index on
\* {userId, date}: the insert always succeeds).
CheckInCreate(p) ==
    /\ attReq[p].op = "checkIn" /\ attReq[p].pc = "create"
    /\ attendance' = Append(attendance, NewAttendance(attReq[p]))
    /\ Reply(p, 201, "")
    /\ UNCHANGED <<now, offices, authVars, geo>>

\* ----------------------------------------------------------- checkOut
\* Step 1 up to the await of Attendance.findOne.
CheckOutStart(p, u, lat, lng) ==
    /\ Free(p)
    /\ IF lat = 0 \/ lng = 0
       THEN attReq' = [attReq EXCEPT ![p] =
                [IdleReq EXCEPT !.op = "checkOut", !.user = u,
                                !.resp = Response(400, "MISSING_LOCATION")]]
       ELSE attReq' = [attReq EXCEPT ![p] =
                [IdleReq EXCEPT !.op = "checkOut", !.pc = "findRecord",
                                !.user = u, !.latitude = lat, !.longitude = lng,
                                !.today = FormatDate(now)]]
    /\ UNCHANGED <<now, attendance, offices, authVars, geo>>

\* Step 5 on the loaded document: checkOutTime = new Date() and the hours
\* computed from it; the document is then handed to save().
CheckOutFill(p, id) ==
    attReq' = [attReq EXCEPT ![p].pc = "save", ![p].id = id, ![p].time = now,
                   ![p].hours = CalculateWorkingHours(attendance[id].checkInTime, now)]

WfhAllowedRadius(doc) ==
    IF doc.wfhCheckoutRadius # 0 THEN doc.wfhCheckoutRadius ELSE 100

\* A checkOut that holds a WFH day to the geofence of the active office.
CheckOutFindRecordOfficeFence(p) ==
    /\ attReq[p].op = "checkOut" /\ attReq[p].pc = "findRecord"
    /\ LET id == FindAttendance(attReq[p].user, attReq[p].today) IN
       IF id = 0
       THEN Reply(p, 400, "NOT_CHECKED_IN")
       ELSE IF attendance[id].status = "checked-out"
       THEN Reply(p, 400, "ALREADY_CHECKED_OUT")
       ELSE IF attendance[id].workMode = "Office"
       THEN attReq' = [attReq EXCEPT ![p].pc = "findOffice", ![p].id = id]
       ELSE IF /\ attendance[id].workMode = "WFH"
               /\ FindActiveOffice # 0
               /\ CalculateDistance(attReq[p].latitude, attReq[p].longitude,
                                    offices[FindActiveOffice].latitude,
                                    offices[FindActiveOffice].longitude)
                    > offices[FindActiveOffice].radius
       THEN Reply(p, 400, "OUT_OF_WFH_RADIUS")
       ELSE CheckOutFill(p, id)
    /\ UNCHANGED <<now, attendance, offices, authVars, geo>>

\* Attendance.findOne answers; steps 2 and 4 on the loaded document.
CheckOutFindRecord(p) ==
    /\ attReq[p].op = "checkOut" /\ attReq[p].pc = "findRecord"
    /\ LET id == FindAttendance(attReq[p].user, attReq[p].today) IN
       IF id = 0
       THEN Reply(p, 400, "NOT_CHECKED_IN")
       ELSE IF attendance[id].status = "checked-out"
       THEN Reply(p, 400, "ALREADY_CHECKED_OUT")
       ELSE IF attendance[id].workMode = "Office"
       THEN attReq' = [attReq EXCEPT ![p].pc = "findOffice", ![p].id = id]
       ELSE IF /\ attendance[id].workMode = "WFH"
               /\ CalculateDistance(attReq[p].latitude, attReq[p].longitude,
                                    attendance[id].checkInLocation[2],
                                    attendance[id].checkInLocation[1])
                    > WfhAllowedRadius(attendance[id])
       THEN Reply(p, 400, "OUT_OF_WFH_RADIUS")
       ELSE CheckOutFill(p, id)
    /\ UNCHANGED <<now, attendance, offices, authVars, geo>>

\* A checkOut geofence that also refuses the boundary.
CheckOutFindOfficeInside(p) ==
    /\ attReq[p].op = "checkOut" /\ attReq[p].pc = "findOffice"
    /\ IF FindActiveOffice = 0
       THEN Reply(p, 404, "OFFICE_NOT_CONFIGURED")
       ELSE IF CalculateDistance(attReq[p].latitude, attReq[p].longitude,
                                 offices[FindActiveOffice].latitude,
                                 offices[FindActiveOffice].longitude)
                 >= offices[FindActiveOffice].radius
       THEN Reply(p, 400, "OUT_OF_OFFICE_RADIUS")
       ELSE CheckOutFill(p, attReq[p].id)
    /\ UNCHANGED <<now, attendance, offices, authVars, geo>>

\* A checkOut that stamps the place on the record before its geofence
\* check.
CheckOutFindOfficeStamping(p) ==
    /\ attReq[p].op = "checkOut" /\ attReq[p].pc = "findOffice"
    /\ attendance' = [attendance EXCEPT ![attReq[p].id].checkOutLocation =
                          <<attReq[p].longitude, attReq[p].latitude>>]
    /\ IF FindActiveOffice = 0
       THEN Reply(p, 404, "OFFICE_NOT_CONFIGURED")
       ELSE IF CalculateDistance(attReq[p].latitude, attReq[p].longitude,
                                 offices[FindActiveOffice].latitude,
                                 offices[FindActiveOffice].longitude)
                 > offices[FindActiveOffice].radius
       THEN Reply(p, 400, "OUT_OF_OFFICE_RADIUS")
       ELSE CheckOutFill(p, attReq[p].id)
    /\ UNCHANGED <<now, offices, authVars, geo>>

\* OfficeLocation.findOne answers; step 3.
CheckOutFindOffice(p) ==
    /\ attReq[p].op = "checkOut" /\ attReq[p].pc = "findOffice"
    /\ IF FindActiveOffice = 0
       THEN Reply(p, 404, "OFFICE_NOT_CONFIGURED")
       ELSE IF CalculateDistance(attReq[p].latitude, attReq[p].longitude,
                                 offices[FindActiveOffice].latitude,
                                 offices[FindActiveOffice].longitude)
                 > offices[FindActiveOffice].radius
       THEN Reply(p, 400, "OUT_OF_OFFICE_RADIUS")
       ELSE CheckOutFill(p, attReq[p].id)
    /\ UNCHANGED <<now, attendance, offices, authVars, geo>>

\* A save that flips the status and leaves the checkout place unset.
SavedCheckOutNoLocation(doc, r) ==
    [doc EXCEPT !.checkOutTime = Some(r.time),
                !.workingHours = r.hours,
                !.status = "checked-out"]

\* What save() writes: the modified paths of the loaded document, by _id,
\* with no condition on the stored status.
SavedCheckOut(doc, r) ==
    [doc EXCEPT !.checkOutTime = Some(r.time),
                !.checkOutLocation = <<r.longitude, r.latitude>>,
                !.workingHours = r.hours,
                !.status = "checked-out"]

CheckOutSave(p) ==
    /\ attReq[p].op = "checkOut" /\ attReq[p].pc = "save"
    /\ attendance' = [attendance EXCEPT ![attReq[p].id] =
                          SavedCheckOut(attendance[attReq[p].id], attReq[p])]
    /\ Reply(p, 200, "")
    /\ UNCHANGED <<now, offices, authVars, geo>>

\* ----------------------------------- controllers/attendanceController
\* The earlier attendance controller: office geofence only, no work mode,
\* answers carry a message and no code.
LegacyCheckInStart(p, u, lat, lng) ==
    /\ Free(p)
    /\ Room({"legacyCheckIn"})
    /\ IF lat = 0 \/ lng = 0
       THEN attReq' = [attReq EXCEPT ![p] =
                [IdleReq EXCEPT !.op = "legacyCheckIn", !.user = u,
                    !.resp = Response(400, "Location coordinates required")]]
       ELSE attReq' = [attReq EXCEPT ![p] =
                [IdleReq EXCEPT !.op = "legacyCheckIn", !.pc = "findOffice",
                                !.user = u, !.latitude = lat, !.longitude = lng]]
    /\ UNCHANGED <<now, attendance, offices, authVars, geo>>

\* OfficeLocation.findOne answers; the geofence check; today is taken.
LegacyCheckInFindOffice(p) ==
    /\ attReq[p].op = "legacyCheckIn" /\ attReq[p].pc = "findOffice"
    /\ IF FindActiveOffice = 0
       THEN Reply(p, 404, "Office location not configured")
       ELSE IF CalculateDistance(attReq[p].latitude, attReq[p].longitude,
                                 offices[FindActiveOffice].latitude,
                                 offices[FindActiveOffice].longitude)
                 > offices[FindActiveOffice].radius
       THEN Reply(p, 400, "You are away from office")
       ELSE attReq' = [attReq EXCEPT ![p].pc = "findExisting",
                                     ![p].today = FormatDate(now)]
    /\ UNCHANGED <<now, attendance, offices, authVars, geo>>

\* Attendance.findOne({userId, date, status: 'checked-in'})
FindCheckedIn(uid, date) ==
    LET ids == {i \in MatchingIds(uid, date) : attendance[i].status = "checked-in"}
    IN  IF ids = {} THEN 0 ELSE Min(ids)

LegacyCheckInFindExisting(p) ==
    /\ attReq[p].op = "legacyCheckIn" /\ attReq[p].pc = "findExisting"
    /\ IF FindCheckedIn(attReq[p].user, attReq[p].today) # 0
       THEN Reply(p, 400, "Already checked in today")
       ELSE attReq' = [attReq EXCEPT ![p].pc = "create", ![p].time = now]
    /\ UNCHANGED <<now, attendance, offices, authVars, geo>>

\* The earlier schema has neither workMode nor wfhCheckoutRadius.
LegacyNewAttendance(r) ==
    [NewAttendance(r) EXCEPT !.workMode = "", !.wfhCheckoutRadius = 0]

LegacyCheckInCreate(p) ==
    /\ attReq[p].op = "legacyCheckIn" /\ attReq[p].pc = "create"
    /\ attendance' = Append(attendance, LegacyNewAttendance(attReq[p]))
    /\ Reply(p, 201, "Checked in successfully")
    /\ UNCHANGED <<now, offices, authVars, geo>>

LegacyCheckOutStart(p, u, lat, lng) ==
    /\ Free(p)
    /\ IF lat = 0 \/ lng = 0
       THEN attReq' = [attReq EXCEPT ![p] =
                [IdleReq EXCEPT !.op = "legacyCheckOut", !.user = u,
                    !.resp = Response(400, "Location coordinates required")]]
       ELSE attReq' = [attReq EXCEPT ![p] =
                [IdleReq EXCEPT !.op = "legacyCheckOut", !.pc = "findRecord",
                                !.user = u, !.latitude = lat, !.longitude = lng,
                                !.today = FormatDate(now)]]
    /\ UNCHANGED <<now, attendance, offices, authVars, geo>>

LegacyCheckOutFindRecord(p) ==
    /\ attReq[p].op = "legacyCheckOut" /\ attReq[p].pc = "findRecord"
    /\ IF FindCheckedIn(attReq[p].user, attReq[p].today) = 0
       THEN Reply(p, 400, "No check-in record found for today")
       ELSE attReq' = [attReq EXCEPT ![p].pc = "findOffice",
                           ![p].id = FindCheckedIn(attReq[p].user, attReq[p].today)]
    /\ UNCHANGED <<now, attendance, offices, authVars, geo>>

LegacyCheckOutFindOffice(p) ==
    /\ attReq[p].op = "legacyCheckOut" /\ attReq[p].pc = "findOffice"
    /\ IF FindActiveOffice = 0
       THEN Reply(p, 404, "Office location not configured")
       ELSE IF CalculateDistance(attReq[p].latitude, attReq[p].longitude,
                                 offices[FindActiveOffice].latitude,
                                 offices[FindActiveOffice].longitude)
                 > offices[FindActiveOffice].radius
       THEN Reply(p, 400, "You are away from office")
       ELSE CheckOutFill(p, attReq[p].id)
    /\ UNCHANGED <<now, attendance, offices, authVars, geo>>

LegacyCheckOutSave(p) ==
    /\ attReq[p].op = "legacyCheckOut" /\ attReq[p].pc = "save"
    /\ attendance' = [attendance EXCEPT ![attReq[p].id] =
                          SavedCheckOut(attendance[attReq[p].id], attReq[p])]
    /\ Reply(p, 200, "Checked out successfully")
    /\ UNCHANGED <<now, offices, authVars, geo>>

\* ------------------------------------------- office locations (admin)
\* updateOfficeLocation: the active location is moved, or one is created.
UpdateOfficeLocation(lat, lng, radius) ==
    /\ IF lat = 0 \/ lng = 0
       THEN UNCHANGED offices                          \* MISSING_COORDINATES
       ELSE IF radius # 0 /\ (radius < 10 \/ radius > 5000)
       THEN UNCHANGED offices                          \* INVALID_RADIUS
       ELSE IF FindActiveOffice # 0
       THEN offices' = [offices EXCEPT
                ![FindActiveOffice].latitude = lat,
                ![FindActiveOffice].longitude = lng,
                ![FindActiveOffice].radius =
                    IF radius # 0 THEN radius ELSE offices[FindActiveOffice].radius]
       ELSE /\ Len(offices) < MaxOffices
            /\ offices' = Append(offices,
                   [latitude |-> lat, longitude |-> lng,
                    radius |-> IF radius # 0 THEN radius ELSE 50,
                    isActive |-> TRUE])
    /\ UNCHANGED <<now, attendance, attReq, authVars, geo>>

\* createOfficeLocationItem: the checks of updateOfficeLocation, then
\* OfficeLocation.create; the item is active only for isActive === true.
CreateOfficeLocationItem(lat, lng, radius, isActive) ==
    /\ IF lat = 0 \/ lng = 0
       THEN UNCHANGED offices                          \* MISSING_COORDINATES
       ELSE IF radius # 0 /\ (radius < 10 \/ radius > 5000)
       THEN UNCHANGED offices                          \* INVALID_RADIUS
       ELSE /\ Len(offices) < MaxOffices
            /\ offices' = Append(offices,
                   [latitude |-> lat, longitude |-> lng,
                    radius |-> IF radius # 0 THEN radius ELSE 50,
                    isActive |-> isActive])
    /\ UNCHANGED <<now, attendance, attReq, authVars, geo>>

\* updateOfficeLocationById: findById, then each field the body carries
\* is assigned and the item saved; radius and isActive are None when the
\* body leaves them out.
UpdateOfficeLocationById(i, radius, isActive) ==
    /\ i \in 1..Len(offices)
    /\ offices' = [offices EXCEPT
           ![i].radius = IF radius # None THEN radius[1] ELSE @,
           ![i].isActive = IF isActive # None THEN isActive[1] ELSE @]
    /\ UNCHANGED <<now, attendance, attReq, authVars, geo>>

\* ---------------------------------------------------------------- clock
Tick(step, horizon) ==
    /\ now + step <= horizon
    /\ now' = now + step

AttTick ==
    /\ Tick(AttStepMs, AttHorizon)
    /\ UNCHANGED <<attVars, authVars, geo>>

\* ================================================= credentials (models/User)
MAX_DEVICES == 3
MAX_LOGIN_ATTEMPTS == 5
LOCK_DURATION_MS == 30 * 60 * 1000
RESET_EXPIRY_MS == 15 * 60 * 1000
MIN_PASSWORD_LENGTH == 6

AuthHorizon == MaxAuthTicks * AuthStepMs
SessionStepMs == 500                \* one session clock step: half a second
SessionHorizon == MaxSessionTicks * SessionStepMs

AuthReqs == 1..NumAuthReq
Emails == Users \cup {"", "nobody"}       \* "": no email in the body
InitialPassword == "secret1"
Passwords == {"", "abc", "secret1", "secret2"}
DeviceIds == 1..MaxDeviceIds               \* 0: no deviceId in the body
RawTokens == 0..MaxResetTokens            \* 0: no token in the body

\* String.length of the password inputs.
PasswordLength(pw) ==
    IF pw = "" THEN 0 ELSE IF pw = "abc" THEN 3 ELSE 7

\* bcrypt.hash and bcrypt.compare: a hash matches the password it was
\* made from and no other.
Hash(pw) == <<"bcrypt", pw>>

Compare(entered, hashed) == hashed = Hash(entered)

\* crypto.createHash('sha256').update(token).digest('hex')
Sha256(token) == <<"sha256", token>>

\* The account document of the user schema, as first registered.
NewUser ==
    [role |-> "employee",
     password |-> Hash(InitialPassword), isActive |-> TRUE,
     loginAttempts |-> 0, lockUntil |-> None, lastLoginAt |-> None,
     devices |-> << >>, passwordChangedAt |-> None,
     passwordResetToken |-> None, passwordResetExpires |-> None]

\* A lock check that never fires.
NeverLocked(doc, t) == FALSE

\* Virtual isLocked, read at instant t.
IsLocked(doc, t) ==
    /\ doc.lockUntil # None
    /\ doc.lockUntil[1] # 0
    /\ doc.lockUntil[1] > t

\* A success branch that only stamps the login.
StampLogin(stored, t) == [stored EXCEPT !.lastLoginAt = Some(t)]

\* matchPassword's $set of the success branch, applied to the stored
\* document at instant t.
ResetLockout(stored, t) ==
    [stored EXCEPT !.loginAttempts = 0, !.lockUntil = None,
                   !.lastLoginAt = Some(t)]

\* A failure branch that locks one attempt late.
RecordFailureLate(stored, doc, t) ==
    [stored EXCEPT
        !.loginAttempts = doc.loginAttempts + 1,
        !.lockUntil = IF doc.loginAttempts + 1 > MAX_LOGIN_ATTEMPTS
                      THEN Some(t + LOCK_DURATION_MS) ELSE None]

\* matchPassword's $set of the failure branch: the new counter is the
\* counter of the loaded document plus one.
RecordFailure(stored, doc, t) ==
    [stored EXCEPT
        !.loginAttempts = doc.loginAttempts + 1,
        !.lockUntil = IF doc.loginAttempts + 1 >= MAX_LOGIN_ATTEMPTS
                      THEN Some(t + LOCK_DURATION_MS) ELSE None]

\* matchPassword on the loaded document doc: what its updateOne leaves
\* in the store.
MatchPassword(stored, doc, entered, t) ==
    IF Compare(entered, doc.password)
    THEN ResetLockout(stored, t)
    ELSE RecordFailure(stored, doc, t)

HasDevice(devices, deviceId) ==
    \E i \in 1..Len(devices) : devices[i].deviceId = deviceId

\* {$set: {'devices.$.lastUsedAt': t}} on the first entry that matches.
TouchDevice(devices, deviceId, t) ==
    IF HasDevice(devices, deviceId)
    THEN [devices EXCEPT
            ![Min({i \in 1..Len(devices) : devices[i].deviceId = deviceId})]
                .lastUsedAt = t]
    ELSE devices

\* {$push: {devices: {...}}}
PushDevice(devices, deviceId, t) ==
    Append(devices, [deviceId |-> deviceId, lastUsedAt |-> t])

IsNot(deviceId, d) == d.deviceId # deviceId

\* A $pull that stops at the first entry it removes.
RECURSIVE PullFirstDevice(_, _)
PullFirstDevice(devices, deviceId) ==
    IF devices = << >> THEN << >>
    ELSE IF Head(devices).deviceId = deviceId THEN Tail(devices)
    ELSE <<Head(devices)>> \o PullFirstDevice(Tail(devices), deviceId)

\* {$pull: {devices: {deviceId}}}
PullDevice(devices, deviceId) ==
    SelectSeq(devices, LAMBDA d : IsNot(deviceId, d))

\* A registerDevice that makes room by dropping the oldest entry.
RegisterDeviceEvicting(stored, doc, deviceId, t) ==
    IF HasDevice(doc.devices, deviceId)
    THEN TouchDevice(stored.devices, deviceId, t)
    ELSE IF Len(doc.devices) >= MAX_DEVICES
    THEN PushDevice(Tail(stored.devices), deviceId, t)
    ELSE PushDevice(stored.devices, deviceId, t)

\* registerDevice on the loaded document doc: what it leaves in the
\* stored device list.
RegisterDevice(stored, doc, deviceId, t) ==
    IF HasDevice(doc.devices, deviceId)
    THEN TouchDevice(stored.devices, deviceId, t)
    ELSE IF Len(doc.devices) >= MAX_DEVICES
    THEN stored.devices
    ELSE PushDevice(stored.devices, deviceId, t)

\* registerDevice's result {isNew, limitReached}.
RegisterResult(doc, deviceId) ==
    IF HasDevice(doc.devices, deviceId)
    THEN [isNew |-> FALSE, limitReached |-> FALSE]
    ELSE IF Len(doc.devices) >= MAX_DEVICES
    THEN [isNew |-> TRUE, limitReached |-> TRUE]
    ELSE [isNew |-> TRUE, limitReached |-> FALSE]

\* document.save() writes a path only when its value was changed on the
\* loaded document.
Written(loaded, edited, stored) == IF edited # loaded THEN edited ELSE stored

\* The loaded document, as far as the handler goes on to read it: the
\* paths in fields, and of a device entry its deviceId.
DeviceIdsOf(devices) ==
    [i \in 1..Len(devices) |->
        [deviceId |-> devices[i].deviceId, lastUsedAt |-> 0]]

Loaded(doc, fields) ==
    [role |-> IF "role" \in fields THEN doc.role ELSE "employee",
     password |-> IF "password" \in fields THEN doc.password ELSE NewUser.password,
     isActive |-> TRUE,
     loginAttempts |-> IF "loginAttempts" \in fields THEN doc.loginAttempts ELSE 0,
     lockUntil |-> IF "lockUntil" \in fields THEN doc.lockUntil ELSE None,
     lastLoginAt |-> None,
     devices |-> IF "devices" \in fields THEN DeviceIdsOf(doc.devices) ELSE << >>,
     passwordChangedAt |-> None,
     passwordResetToken |-> IF "passwordResetToken" \in fields
                            THEN doc.passwordResetToken ELSE None,
     passwordResetExpires |-> IF "passwordResetExpires" \in fields
                              THEN doc.passwordResetExpires ELSE None]

\* The wall clock at the model's instant 0, in ms: one second past the
\* epoch, so that no token carries the issue second 0.
ClockOrigin == 1000

\* parseInt(ms / 1000, 10): the second an instant falls in.
Seconds(t) == (ClockOrigin + t) \div 1000

TOKEN_TTL_S == 30 * 24 * 60 * 60

\* jwt.sign({ id }, secret, { expiresIn: '30d' }) at the instant t.
GenerateToken(id, t) == [id |-> id, at |-> t]

\* decoded.iat: the payload keeps the second of the signing instant.
Iat(token) == Seconds(token.at)

\* A bearer string that jwt.verify does not accept.
Garbage == [id |-> "", at |-> 0]

TokenExpired(token, t) == Seconds(t) >= Iat(token) + TOKEN_TTL_S

\* A comparison that also turns away a token of the second of the change.
ChangedPasswordAtOrAfter(doc, JWTTimestamp) ==
    /\ doc.passwordChangedAt # None
    /\ JWTTimestamp <= Seconds(doc.passwordChangedAt[1])

\* changedPasswordAfter: the token's issue second against the second of
\* passwordChangedAt.
ChangedPasswordAfter(doc, JWTTimestamp) ==
    /\ doc.passwordChangedAt # None
    /\ JWTTimestamp < Seconds(doc.passwordChangedAt[1])

\* What a client can send as Authorization: nothing, a string that is
\* no token, or a token that a login handed out.
Bearers == {None, Some(Garbage)} \cup {Some(token) : token \in tokens}

IdleAuthReq ==
    [op |-> "none", pc |-> "done", user |-> "", password |-> "",
     newPassword |-> "", deviceId |-> 0, token |-> 0, expires |-> 0,
     bearer |-> None, doc |-> NewUser, resp |-> NoResponse, audit |-> << >>]

AuthFinished(r, status, code) ==
    [IdleAuthReq EXCEPT !.op = r.op, !.user = r.user,
                        !.resp = Response(status, code)]

\* An answer stays in its slot until the server's next step.
Settled == [q \in AuthReqs |->
               IF authReq[q].pc = "done" THEN IdleAuthReq ELSE authReq[q]]

AuthReply(p, status, code) ==
    authReq' = [Settled EXCEPT ![p] = AuthFinished(authReq[p], status, code)]

\* An answer given before anything was loaded.
AuthReject(p, op, u, status, code) ==
    authReq' = [Settled EXCEPT ![p] =
        [IdleAuthReq EXCEPT !.op = op, !.user = u,
                            !.resp = Response(status, code)]]

\* utils/logger securityLogger: authFailure and suspiciousActivity each
\* write one warning to the security log. The log is written and never
\* read: the warnings a request wrote are kept with its answer.
AuthFailure(reason) == <<[type |-> "AUTH_FAILURE", reason |-> reason]>>

SuspiciousActivity(action) ==
    <<[type |-> "SUSPICIOUS_ACTIVITY", reason |-> action]>>

\* An answer given after warnings were logged.
AuthReplyLogged(p, status, code, entries) ==
    authReq' = [Settled EXCEPT ![p] =
        [AuthFinished(authReq[p], status, code) EXCEPT !.audit = entries]]

AuthRejectLogged(p, op, u, status, code, entries) ==
    authReq' = [Settled EXCEPT ![p] =
        [IdleAuthReq EXCEPT !.op = op, !.user = u, !.audit = entries,
                            !.resp = Response(status, code)]]

AuthFree(p) ==
    /\ authReq[p].pc = "done"
    /\ \A q \in AuthReqs : q < p => authReq[q].pc # "done"

\* Device identifiers are interchangeable: a login comes from a device
\* in use or from the first one that is not.
InUse(u, deviceId) ==
    \/ HasDevice(users[u].devices, deviceId)
    \/ \E q \in AuthReqs : /\ authReq[q].pc # "done"
                           /\ authReq[q].user = u
                           /\ authReq[q].deviceId = deviceId

KnownOrNext(u) ==
    {d \in DeviceIds : \A e \in 1..(d - 1) : InUse(u, e)}

At(p, op, pc) == authReq[p].op = op /\ authReq[p].pc = pc

\* ---------------------------------------------------------- loginUser
\* Steps 1-5: the body is validated and User.findOne answers; the
\* account must exist, be active and not be locked.
LoginUserFind(p, email, password, deviceId) ==
    /\ AuthFree(p)
    /\ IF email = "" \/ password = ""
       THEN AuthReject(p, "loginUser", email, 400, "MISSING_CREDENTIALS")
       ELSE IF deviceId = 0
       THEN AuthReject(p, "loginUser", email, 400, "DEVICE_INFO_REQUIRED")
       ELSE IF email \notin DOMAIN users
       THEN AuthRejectLogged(p, "loginUser", email, 401, "INVALID_CREDENTIALS",
                             AuthFailure("USER_NOT_FOUND"))
       ELSE IF ~users[email].isActive
       THEN AuthRejectLogged(p, "loginUser", email, 401, "ACCOUNT_INACTIVE",
                             AuthFailure("ACCOUNT_DEACTIVATED"))
       ELSE IF IsLocked(users[email], now)
       THEN AuthRejectLogged(p, "loginUser", email, 401, "ACCOUNT_LOCKED",
                             AuthFailure("ACCOUNT_LOCKED"))
       ELSE authReq' = [Settled EXCEPT ![p] =
                [IdleAuthReq EXCEPT !.op = "loginUser", !.pc = "matchPassword",
                                    !.user = email, !.password = password,
                                    !.deviceId = deviceId,
                                    !.doc = Loaded(users[email],
                                        {"password", "loginAttempts", "devices"})]]
    /\ UNCHANGED <<now, users, issued, tokens, attVars, geo>>

\* Step 6: bcrypt.compare on the loaded document, then matchPassword's
\* updateOne.
LoginUserMatchPassword(p) ==
    /\ At(p, "loginUser", "matchPassword")
    /\ users' = [users EXCEPT ![authReq[p].user] =
                    MatchPassword(users[authReq[p].user], authReq[p].doc,
                                  authReq[p].password, now)]
    /\ authReq' = [Settled EXCEPT
                    ![p].pc =
                        IF Compare(authReq[p].password, authReq[p].doc.password)
                        THEN "registerDevice" ELSE "refresh",
                    ![p].password = "",
                    ![p].doc = Loaded(authReq[p].doc,
                                      {"loginAttempts", "devices"})]
    /\ UNCHANGED <<now, issued, tokens, attVars, geo>>

\* The failure branch reloads the counters for attemptsLeft and answers.
LoginUserRefresh(p) ==
    /\ At(p, "loginUser", "refresh")
    /\ AuthReplyLogged(p, 401, "INVALID_CREDENTIALS",
                       AuthFailure("INVALID_PASSWORD"))
    /\ UNCHANGED <<now, users, issued, tokens, attVars, geo>>

\* A registerDevice step that hands out the token whatever registerDevice
\* reported.
LoginUserRegisterDeviceAlways(p) ==
    /\ At(p, "loginUser", "registerDevice")
    /\ users' = [users EXCEPT ![authReq[p].user].devices =
                    RegisterDevice(users[authReq[p].user], authReq[p].doc,
                                   authReq[p].deviceId, now)]
    /\ AuthReply(p, 200, "")
    /\ tokens' = tokens \cup {GenerateToken(authReq[p].user, now)}
    /\ UNCHANGED <<now, issued, attVars, geo>>

\* Steps 7-9: registerDevice on the loaded document; a token is issued
\* unless the device limit is reached.
LoginUserRegisterDevice(p) ==
    /\ At(p, "loginUser", "registerDevice")
    /\ users' = [users EXCEPT ![authReq[p].user].devices =
                    RegisterDevice(users[authReq[p].user], authReq[p].doc,
                                   authReq[p].deviceId, now)]
    /\ IF RegisterResult(authReq[p].doc, authReq[p].deviceId).limitReached
       THEN AuthReply(p, 400, "MAX_DEVICES_REACHED") /\ UNCHANGED tokens
       ELSE /\ AuthReply(p, 200, "")
            /\ tokens' = tokens \cup {GenerateToken(authReq[p].user, now)}
    /\ UNCHANGED <<now, issued, attVars, geo>>

\* --------------------------------------------------- middleware protect
\* The request passed every check and next() runs the handler.
Admitted(p, op, bearer, password, newPassword, deviceId) ==
    authReq' = [Settled EXCEPT ![p] =
        [IdleAuthReq EXCEPT !.op = op, !.pc = "handler",
                            !.user = bearer[1].id, !.bearer = bearer,
                            !.doc = Loaded(users[bearer[1].id], {"role"}),
                            !.password = password,
                            !.newPassword = newPassword,
                            !.deviceId = deviceId]]

\* protect answers 401 itself.
Refused(p, op, bearer, code, entries) ==
    authReq' = [Settled EXCEPT ![p] =
        [IdleAuthReq EXCEPT !.op = op, !.bearer = bearer, !.audit = entries,
                            !.resp = Response(401, code)]]

\* Steps 1-7 of protect: the bearer token is extracted and verified,
\* User.findById answers, and the account checks run on what it loaded.
Protect(p, op, bearer, password, newPassword, deviceId) ==
    /\ AuthFree(p)
    /\ IF bearer = None
       THEN Refused(p, op, bearer, "NO_TOKEN", AuthFailure("NO_TOKEN_PROVIDED"))
       ELSE IF bearer[1] = Garbage
       THEN Refused(p, op, bearer, "INVALID_TOKEN", AuthFailure("INVALID_TOKEN"))
       ELSE IF TokenExpired(bearer[1], now)
       THEN Refused(p, op, bearer, "TOKEN_EXPIRED", AuthFailure("TOKEN_EXPIRED"))
       ELSE IF bearer[1].id \notin DOMAIN users
       THEN Refused(p, op, bearer, "USER_NOT_FOUND",
                    AuthFailure("TOKEN_USER_NOT_FOUND"))
       ELSE IF ~users[bearer[1].id].isActive
       THEN Refused(p, op, bearer, "ACCOUNT_INACTIVE",
                    AuthFailure("INACTIVE_ACCOUNT_ACCESS"))
       ELSE IF IsLocked(users[bearer[1].id], now)
       THEN Refused(p, op, bearer, "ACCOUNT_LOCKED",
                    AuthFailure("LOCKED_ACCOUNT_ACCESS"))
       ELSE IF ChangedPasswordAfter(users[bearer[1].id], Iat(bearer[1]))
       THEN Refused(p, op, bearer, "PASSWORD_CHANGED", << >>)
       ELSE Admitted(p, op, bearer, password, newPassword, deviceId)
    /\ UNCHANGED <<now, users, issued, tokens, attVars, geo>>

\* The earlier protect: the password-change check comes first, an
\* expired token is answered like a forged one, and a request without
\* a bearer is answered last.
LegacyProtect(p, op, bearer, password, newPassword, deviceId) ==
    /\ AuthFree(p)
    /\ IF bearer = None
       THEN Refused(p, op, bearer, "NO_TOKEN", AuthFailure("NO_TOKEN_PROVIDED"))
       ELSE IF bearer[1] = Garbage \/ TokenExpired(bearer[1], now)
       THEN Refused(p, op, bearer, "INVALID_TOKEN", AuthFailure("INVALID_TOKEN"))
       ELSE IF /\ bearer[1].id \in DOMAIN users
               /\ ChangedPasswordAfter(users[bearer[1].id], Iat(bearer[1]))
       THEN Refused(p, op, bearer, "PASSWORD_CHANGED", << >>)
       ELSE IF bearer[1].id \notin DOMAIN users
       THEN Refused(p, op, bearer, "USER_NOT_FOUND",
                    AuthFailure("TOKEN_USER_MISMATCH"))
       ELSE IF ~users[bearer[1].id].isActive
       THEN Refused(p, op, bearer, "ACCOUNT_INACTIVE",
                    AuthFailure("INACTIVE_ACCOUNT_ACCESS_ATTEMPT"))
       ELSE IF IsLocked(users[bearer[1].id], now)
       THEN Refused(p, op, bearer, "ACCOUNT_LOCKED",
                    AuthFailure("LOCKED_ACCOUNT_ACCESS_ATTEMPT"))
       ELSE Admitted(p, op, bearer, password, newPassword, deviceId)
    /\ UNCHANGED <<now, users, issued, tokens, attVars, geo>>

\* -------------------------------------------- middleware admin, manager
\* A manager gate that lets only managers through.
ManagersOnly(user) == user # None /\ user[1].role = "manager"

\* req.user && req.user.role === 'admin'
AdminAllows(user) == user # None /\ user[1].role = "admin"

\* req.user && ['admin', 'manager'].includes(req.user.role)
ManagerAllows(user) == user # None /\ user[1].role \in {"admin", "manager"}

\* admin, mounted after protect: next() or 403.
Admin(p) ==
    /\ At(p, "adminRoute", "handler")
    /\ IF AdminAllows(Some(authReq[p].doc))
       THEN authReq' = [Settled EXCEPT ![p].pc = "next"]
       ELSE AuthReplyLogged(p, 403, "INSUFFICIENT_PERMISSIONS",
                SuspiciousActivity("UNAUTHORIZED_ADMIN_ACCESS_ATTEMPT"))
    /\ UNCHANGED <<now, users, issued, tokens, attVars, geo>>

\* manager, mounted after protect: next() or 403.
Manager(p) ==
    /\ At(p, "managerRoute", "handler")
    /\ IF ManagerAllows(Some(authReq[p].doc))
       THEN authReq' = [Settled EXCEPT ![p].pc = "next"]
       ELSE AuthReply(p, 403, "INSUFFICIENT_PERMISSIONS")
    /\ UNCHANGED <<now, users, issued, tokens, attVars, geo>>

\* The route's own handler answers a request that passed its gate.
RouteHandler(p) ==
    /\ authReq[p].op \in {"adminRoute", "managerRoute"}
    /\ authReq[p].pc = "next"
    /\ AuthReply(p, 200, "")
    /\ UNCHANGED <<now, users, issued, tokens, attVars, geo>>

\* -------------------------------------------------- updateAdminAccount
\* An administrator makes an admin a manager or a manager an admin.
UpdateAdminAccount(u, role) ==
    /\ users[u].role \in {"admin", "manager"}
    /\ role \in {"admin", "manager"}
    /\ users' = [users EXCEPT ![u].role = role]
    /\ UNCHANGED <<now, authReq, issued, tokens, attVars, geo>>

\* ------------------------------------------------ toggleEmployeeStatus
\* An administrator flips the isActive flag of the account.
ToggleEmployeeStatus(u) ==
    /\ users' = [users EXCEPT ![u].isActive = ~users[u].isActive]
    /\ UNCHANGED <<now, authReq, issued, tokens, attVars, geo>>

\* ---------------------------------------------------------- logoutUser
\* A logout that takes the presented token out of circulation.
LogoutUserRevoking(p) ==
    /\ At(p, "logoutUser", "handler")
    /\ users' = [users EXCEPT ![authReq[p].user].devices =
                    IF authReq[p].deviceId # 0
                    THEN PullDevice(users[authReq[p].user].devices,
                                    authReq[p].deviceId)
                    ELSE users[authReq[p].user].devices]
    /\ tokens' = tokens \ {authReq[p].bearer[1]}
    /\ AuthReply(p, 200, "")
    /\ UNCHANGED <<now, issued, attVars, geo>>

\* logoutUser: {$pull: {devices: {deviceId}}} when the body names a
\* device, then 200.
LogoutUser(p) ==
    /\ At(p, "logoutUser", "handler")
    /\ users' = [users EXCEPT ![authReq[p].user].devices =
                    IF authReq[p].deviceId # 0
                    THEN PullDevice(users[authReq[p].user].devices,
                                    authReq[p].deviceId)
                    ELSE users[authReq[p].user].devices]
    /\ AuthReply(p, 200, "")
    /\ UNCHANGED <<now, issued, tokens, attVars, geo>>

\* -------------------------------------------------------- removeDevice
RemoveDeviceFind(p) ==
    /\ At(p, "removeDevice", "handler")
    /\ IF ~HasDevice(users[authReq[p].user].devices, authReq[p].deviceId)
       THEN AuthReply(p, 404, "DEVICE_NOT_FOUND")
       ELSE authReq' = [Settled EXCEPT ![p].pc = "pull"]
    /\ UNCHANGED <<now, users, issued, tokens, attVars, geo>>

RemoveDevicePull(p) ==
    /\ At(p, "removeDevice", "pull")
    /\ users' = [users EXCEPT ![authReq[p].user].devices =
                    PullDevice(users[authReq[p].user].devices,
                               authReq[p].deviceId)]
    /\ AuthReply(p, 200, "")
    /\ UNCHANGED <<now, issued, tokens, attVars, geo>>

\* --------------------------------------------------- updateUserProfile
\* User.findById answers; the password change is validated.
UpdateUserProfileFind(p) ==
    /\ At(p, "updateUserProfile", "handler")
    /\ IF authReq[p].newPassword = ""
       THEN authReq' = [Settled EXCEPT ![p].pc = "save", ![p].password = ""]
       ELSE IF authReq[p].password = ""
       THEN AuthReply(p, 400, "CURRENT_PASSWORD_REQUIRED")
       ELSE IF PasswordLength(authReq[p].newPassword) < MIN_PASSWORD_LENGTH
       THEN AuthReply(p, 400, "WEAK_PASSWORD")
       ELSE authReq' = [Settled EXCEPT
                           ![p].pc = "matchPassword",
                           ![p].doc = Loaded(users[authReq[p].user],
                                             {"password", "loginAttempts"})]
    /\ UNCHANGED <<now, users, issued, tokens, attVars, geo>>

UpdateUserProfileMatchPassword(p) ==
    /\ At(p, "updateUserProfile", "matchPassword")
    /\ users' = [users EXCEPT ![authReq[p].user] =
                    MatchPassword(users[authReq[p].user], authReq[p].doc,
                                  authReq[p].password, now)]
    /\ IF Compare(authReq[p].password, authReq[p].doc.password)
       THEN authReq' = [Settled EXCEPT ![p].pc = "save", ![p].password = "",
                                       ![p].doc = NewUser]
       ELSE AuthReply(p, 400, "WRONG_CURRENT_PASSWORD")
    /\ UNCHANGED <<now, issued, tokens, attVars, geo>>

\* What save() writes after user.password = newPassword: the hashed
\* password and the passwordChangedAt of the pre-save hook.
SavedPassword(stored, newPassword, t) ==
    [stored EXCEPT !.password = Hash(newPassword),
                   !.passwordChangedAt = Some(t)]

\* A save that hashes whatever the request carried, a new password or
\* none.
UpdateUserProfileSaveHashing(p) ==
    /\ At(p, "updateUserProfile", "save")
    /\ users' = [users EXCEPT ![authReq[p].user] =
                    SavedPassword(users[authReq[p].user],
                                  authReq[p].newPassword, now)]
    /\ AuthReply(p, 200, "")
    /\ UNCHANGED <<now, issued, tokens, attVars, geo>>

UpdateUserProfileSave(p) ==
    /\ At(p, "updateUserProfile", "save")
    /\ users' = [users EXCEPT ![authReq[p].user] =
                    IF authReq[p].newPassword = ""
                    THEN users[authReq[p].user]
                    ELSE SavedPassword(users[authReq[p].user],
                                       authReq[p].newPassword, now)]
    /\ AuthReply(p, 200, "")
    /\ UNCHANGED <<now, issued, tokens, attVars, geo>>

\* ------------------------------------------------ updateEmployeeDetails
\* An administrator edits an employee account; a password in the body is
\* assigned and hashed by save() unless it is too short.
UpdateEmployeeDetails(u, password) ==
    /\ users[u].role = "employee"
    /\ users' = [users EXCEPT ![u] =
                    IF password = ""
                       \/ PasswordLength(password) < MIN_PASSWORD_LENGTH
                    THEN users[u]
                    ELSE SavedPassword(users[u], password, now)]
    /\ UNCHANGED <<now, authReq, issued, tokens, attVars, geo>>

\* ------------------------------------------------------ forgotPassword
\* User.findOne answers; createPasswordResetToken draws a fresh raw
\* token and fills the loaded document.
ForgotPasswordFind(p, email) ==
    /\ AuthFree(p)
    /\ IF email = ""
       THEN /\ AuthReject(p, "forgotPassword", email, 400, "MISSING_EMAIL")
            /\ UNCHANGED issued
       ELSE IF email \notin DOMAIN users
       THEN /\ AuthReject(p, "forgotPassword", email, 200, "")
            /\ UNCHANGED issued
       ELSE /\ issued < MaxResetTokens
            /\ issued' = issued + 1
            /\ authReq' = [Settled EXCEPT ![p] =
                 [IdleAuthReq EXCEPT !.op = "forgotPassword", !.pc = "save",
                                     !.user = email, !.token = issued + 1,
                                     !.expires = now + RESET_EXPIRY_MS,
                                     !.doc = Loaded(users[email],
                                         {"passwordResetToken",
                                          "passwordResetExpires"})]]
    /\ UNCHANGED <<now, users, tokens, attVars, geo>>

\* What save() writes after createPasswordResetToken.
SavedResetToken(stored, doc, token, expires) ==
    [stored EXCEPT
        !.passwordResetToken =
            Written(doc.passwordResetToken, Some(Sha256(token)),
                    stored.passwordResetToken),
        !.passwordResetExpires =
            Written(doc.passwordResetExpires, Some(expires),
                    stored.passwordResetExpires)]

ForgotPasswordSave(p) ==
    /\ At(p, "forgotPassword", "save")
    /\ users' = [users EXCEPT ![authReq[p].user] =
                    SavedResetToken(users[authReq[p].user], authReq[p].doc,
                                    authReq[p].token, authReq[p].expires)]
    /\ AuthReply(p, 200, "")
    /\ UNCHANGED <<now, issued, tokens, attVars, geo>>

\* ------------------------------------------------------- resetPassword
\* A lookup that still accepts a token at the instant it expires.
TokenHoldersAtExpiry(token, t) ==
    {u \in Users :
        /\ users[u].passwordResetToken = Some(Sha256(token))
        /\ users[u].passwordResetExpires # None
        /\ users[u].passwordResetExpires[1] >= t}

\* User.findOne({passwordResetToken, passwordResetExpires: {$gt: t}})
TokenHolders(token, t) ==
    {u \in Users :
        /\ users[u].passwordResetToken = Some(Sha256(token))
        /\ users[u].passwordResetExpires # None
        /\ users[u].passwordResetExpires[1] > t}

ResetPasswordFind(p, token, newPassword) ==
    /\ AuthFree(p)
    /\ IF token = 0 \/ newPassword = ""
       THEN AuthReject(p, "resetPassword", "", 400, "MISSING_FIELDS")
       ELSE IF PasswordLength(newPassword) < MIN_PASSWORD_LENGTH
       THEN AuthReject(p, "resetPassword", "", 400, "WEAK_PASSWORD")
       ELSE IF TokenHolders(token, now) = {}
       THEN AuthReject(p, "resetPassword", "", 400, "INVALID_OR_EXPIRED_TOKEN")
       ELSE \E u \in TokenHolders(token, now) :
              authReq' = [Settled EXCEPT ![p] =
                 [IdleAuthReq EXCEPT !.op = "resetPassword", !.pc = "save",
                                     !.user = u, !.newPassword = newPassword,
                                     !.doc = Loaded(users[u],
                                         {"loginAttempts", "lockUntil",
                                          "passwordResetToken",
                                          "passwordResetExpires"})]]
    /\ UNCHANGED <<now, users, issued, tokens, attVars, geo>>

\* What save() writes after the assignments of resetPassword: the new
\* password, the cleared reset fields, and the lockout fields where the
\* loaded document did not already hold 0 and null.
SavedReset(stored, doc, newPassword, t) ==
    [SavedPassword(stored, newPassword, t) EXCEPT
        !.passwordResetToken =
            Written(doc.passwordResetToken, None, stored.passwordResetToken),
        !.passwordResetExpires =
            Written(doc.passwordResetExpires, None, stored.passwordResetExpires),
        !.loginAttempts = Written(doc.loginAttempts, 0, stored.loginAttempts),
        !.lockUntil = Written(doc.lockUntil, None, stored.lockUntil)]

ResetPasswordSave(p) ==
    /\ At(p, "resetPassword", "save")
    /\ users' = [users EXCEPT ![authReq[p].user] =
                    SavedReset(users[authReq[p].user], authReq[p].doc,
                               authReq[p].newPassword, now)]
    /\ AuthReply(p, 200, "")
    /\ UNCHANGED <<now, issued, tokens, attVars, geo>>

\* ------------------------------------- the earlier credential controller
\* loginUser without the lock check and without devices: User.findOne
\* answers.
LegacyLoginUserFind(p, email, password) ==
    /\ AuthFree(p)
    /\ IF email = "" \/ password = ""
       THEN AuthReject(p, "legacyLoginUser", email, 400, "MISSING_CREDENTIALS")
       ELSE IF email \notin DOMAIN users
       THEN AuthRejectLogged(p, "legacyLoginUser", email, 401,
                "INVALID_CREDENTIALS", AuthFailure("USER_NOT_FOUND"))
       ELSE IF ~users[email].isActive
       THEN AuthRejectLogged(p, "legacyLoginUser", email, 401,
                "ACCOUNT_INACTIVE", AuthFailure("ACCOUNT_DEACTIVATED"))
       ELSE authReq' = [Settled EXCEPT ![p] =
                [IdleAuthReq EXCEPT !.op = "legacyLoginUser",
                                    !.pc = "matchPassword",
                                    !.user = email, !.password = password,
                                    !.doc = Loaded(users[email],
                                        {"password", "loginAttempts"})]]
    /\ UNCHANGED <<now, users, issued, tokens, attVars, geo>>

\* matchPassword's updateOne, then the answer: a token on a match.
LegacyLoginUserMatchPassword(p) ==
    /\ At(p, "legacyLoginUser", "matchPassword")
    /\ users' = [users EXCEPT ![authReq[p].user] =
                    MatchPassword(users[authReq[p].user], authReq[p].doc,
                                  authReq[p].password, now)]
    /\ IF Compare(authReq[p].password, authReq[p].doc.password)
       THEN /\ AuthReply(p, 200, "")
            /\ tokens' = tokens \cup {GenerateToken(authReq[p].user, now)}
       ELSE /\ AuthReplyLogged(p, 401, "INVALID_CREDENTIALS",
                               AuthFailure("INVALID_PASSWORD"))
            /\ UNCHANGED tokens
    /\ UNCHANGED <<now, issued, attVars, geo>>

\* What save() writes in the earlier resetPassword: the new password
\* and the cleared reset fields, nothing of the lockout.
LegacySavedReset(stored, doc, newPassword, t) ==
    [SavedPassword(stored, newPassword, t) EXCEPT
        !.passwordResetToken =
            Written(doc.passwordResetToken, None, stored.passwordResetToken),
        !.passwordResetExpires =
            Written(doc.passwordResetExpires, None, stored.passwordResetExpires)]

LegacyResetPasswordSave(p) ==
    /\ At(p, "resetPassword", "save")
    /\ users' = [users EXCEPT ![authReq[p].user] =
                    LegacySavedReset(users[authReq[p].user], authReq[p].doc,
                                     authReq[p].newPassword, now)]
    /\ AuthReply(p, 200, "")
    /\ UNCHANGED <<now, issued, tokens, attVars, geo>>

AuthTick ==
    /\ Tick(AuthStepMs, AuthHorizon)
    /\ UNCHANGED <<attVars, authVars, geo>>

SessionTick ==
    /\ Tick(SessionStepMs, SessionHorizon)
    /\ UNCHANGED <<attVars, authVars, geo>>

\* ------------------------------------------------------- specifications
\* No call of calculateDistance on the sphere is under way.
NoMeasure == [from |-> <<0, 0>>, to |-> <<0, 0>>, distance |-> None]

Init ==
    /\ now = 0
    /\ attendance = << >>
    /\ offices = << >>
    /\ attReq = [p \in AttReqs |-> IdleReq]
    /\ users = [u \in Users |-> NewUser]
    /\ authReq = [p \in AuthReqs |-> IdleAuthReq]
    /\ issued = 0
    /\ tokens = {}
    /\ geo = NoMeasure

OfficeAdmin ==
    \/ \E lat \in Latitudes, radius \in Radii :
          UpdateOfficeLocation(lat, Meridian, radius)
    \/ \E i \in 1..MaxOffices, isActive \in BOOLEAN :
          UpdateOfficeLocationById(i, None, Some(isActive))

NextAtt ==
    \/ \E p \in AttReqs, u \in Users, lat \in Latitudes, lng \in Longitudes,
          wm \in WorkModes : CheckInStart(p, u, lat, lng, wm)
    \/ \E p \in AttReqs : CheckInFindExisting(p)
    \/ \E p \in AttReqs : CheckInFindOffice(p)
    \/ \E p \in AttReqs : CheckInCreate(p)
    \/ \E p \in AttReqs, u \in Users, lat \in Latitudes, lng \in Longitudes :
          CheckOutStart(p, u, lat, lng)
    \/ \E p \in AttReqs : CheckOutFindRecord(p)
    \/ \E p \in AttReqs : CheckOutFindOffice(p)
    \/ \E p \in AttReqs : CheckOutSave(p)
    \/ OfficeAdmin
    \/ AttTick

SpecAtt == Init /\ [][NextAtt]_vars

\* The geofences within one day: check-ins and check-outs on the
\* meridian, next to an administrator who moves, resizes and switches
\* the office.
NextFence ==
    \/ \E p \in AttReqs, u \in Users, lat \in FenceLatitudes, wm \in WorkModes :
          CheckInStart(p, u, lat, Meridian, wm)
    \/ \E p \in AttReqs : CheckInFindExisting(p)
    \/ \E p \in AttReqs : CheckInFindOffice(p)
    \/ \E p \in AttReqs : CheckInCreate(p)
    \/ \E p \in AttReqs, u \in Users, lat \in FenceLatitudes :
          CheckOutStart(p, u, lat, Meridian)
    \/ \E p \in AttReqs : CheckOutFindRecord(p)
    \/ \E p \in AttReqs : CheckOutFindOffice(p)
    \/ \E p \in AttReqs : CheckOutSave(p)
    \/ \E lat \in FenceLatitudes, radius \in FenceRadii :
          UpdateOfficeLocation(lat, Meridian, radius)
    \/ \E i \in 1..MaxOffices, isActive \in BOOLEAN :
          UpdateOfficeLocationById(i, None, Some(isActive))

SpecFence == Init /\ [][NextFence]_vars

\* The administrator's office operations next to check-ins at the office.
NextOffices ==
    \/ \E lat \in Latitudes, radius \in FenceRadii :
          UpdateOfficeLocation(lat, Meridian, radius)
    \/ \E lat \in Latitudes, radius \in FenceRadii, isActive \in BOOLEAN :
          CreateOfficeLocationItem(lat, Meridian, radius, isActive)
    \/ \E i \in 1..MaxOffices,
          radius \in {None} \cup {Some(r) : r \in FenceRadii},
          isActive \in {None, Some(TRUE), Some(FALSE)} :
          UpdateOfficeLocationById(i, radius, isActive)
    \/ \E p \in AttReqs, u \in Users, lat \in Latitudes :
          CheckInStart(p, u, lat, Meridian, "Office")
    \/ \E p \in AttReqs : CheckInFindExisting(p)
    \/ \E p \in AttReqs : CheckInFindOffice(p)
    \/ \E p \in AttReqs : CheckInCreate(p)

SpecOffices == Init /\ [][NextOffices]_vars

\* calculateDistance between two places of the sphere, <<latitude,
\* longitude>> in degrees.
Places == {-60, -30, 0, 30, 60} \X {-60, 0, 60, 120}

InitDistance ==
    /\ now = 0
    /\ attendance = << >>
    /\ offices = << >>
    /\ attReq = [p \in AttReqs |-> IdleReq]
    /\ users = [u \in Users |-> NewUser]
    /\ authReq = [p \in AuthReqs |-> IdleAuthReq]
    /\ issued = 0
    /\ tokens = {}
    /\ geo \in [from : Places, to : Places, distance : {None}]

Measure ==
    /\ geo.distance = None
    /\ geo' = [geo EXCEPT !.distance =
                  Some(Haversine(geo.from[1], geo.from[2], geo.to[1], geo.to[2]))]
    /\ UNCHANGED <<now, attVars, authVars>>

NextDistance == Measure

SpecDistance == InitDistance /\ [][NextDistance]_vars

\* The working hours of days away from the office, on a clock that steps
\* by half a hundredth of an hour short of a quarter.
HoursTick ==
    /\ Tick(HoursStepMs, HoursHorizon)
    /\ UNCHANGED <<attVars, authVars, geo>>

NextHours ==
    \/ \E p \in AttReqs, u \in Users, lat \in Latitudes :
          CheckInStart(p, u, lat, Meridian, "WFH")
    \/ \E p \in AttReqs : CheckInFindExisting(p)
    \/ \E p \in AttReqs : CheckInCreate(p)
    \/ \E p \in AttReqs, u \in Users, lat \in Latitudes :
          CheckOutStart(p, u, lat, Meridian)
    \/ \E p \in AttReqs : CheckOutFindRecord(p)
    \/ \E p \in AttReqs : CheckOutSave(p)
    \/ HoursTick

SpecHours == Init /\ [][NextHours]_vars

\* The earlier attendance controller, mounted on the same routes.
NextLegacyAtt ==
    \/ \E p \in AttReqs, u \in Users, lat \in Latitudes, lng \in Longitudes :
          LegacyCheckInStart(p, u, lat, lng)
    \/ \E p \in AttReqs : LegacyCheckInFindOffice(p)
    \/ \E p \in AttReqs : LegacyCheckInFindExisting(p)
    \/ \E p \in AttReqs : LegacyCheckInCreate(p)
    \/ \E p \in AttReqs, u \in Users, lat \in Latitudes, lng \in Longitudes :
          LegacyCheckOutStart(p, u, lat, lng)
    \/ \E p \in AttReqs : LegacyCheckOutFindRecord(p)
    \/ \E p \in AttReqs : LegacyCheckOutFindOffice(p)
    \/ \E p \in AttReqs : LegacyCheckOutSave(p)
    \/ OfficeAdmin
    \/ AttTick

SpecLegacyAtt == Init /\ [][NextLegacyAtt]_vars

\* The lockout core: logins to one account from one device, over the
\* lock window.
NextAuth ==
    \/ \E p \in AuthReqs, email \in Emails,
          password \in {"", "secret1", "secret2"}, deviceId \in {0, 1} :
          LoginUserFind(p, email, password, deviceId)
    \/ \E p \in AuthReqs : LoginUserMatchPassword(p)
    \/ \E p \in AuthReqs : LoginUserRefresh(p)
    \/ \E p \in AuthReqs : LoginUserRegisterDevice(p)
    \/ AuthTick

SpecAuth == Init /\ [][NextAuth]_vars

\* Logins, profile password changes and password resets, within one
\* clock instant.
NextReset ==
    \/ \E p \in AuthReqs, u \in Users, password \in {"secret1", "secret2"} :
          LoginUserFind(p, u, password, 1)
    \/ \E p \in AuthReqs : LoginUserMatchPassword(p)
    \/ \E p \in AuthReqs : LoginUserRefresh(p)
    \/ \E p \in AuthReqs : LoginUserRegisterDevice(p)
    \/ \E p \in AuthReqs, token \in tokens,
          password \in {"", "secret1", "secret2"},
          newPassword \in {"", "abc", "secret2"} :
          Protect(p, "updateUserProfile", Some(token), password, newPassword, 0)
    \/ \E p \in AuthReqs : UpdateUserProfileFind(p)
    \/ \E p \in AuthReqs : UpdateUserProfileMatchPassword(p)
    \/ \E p \in AuthReqs : UpdateUserProfileSave(p)
    \/ \E p \in AuthReqs, email \in Emails : ForgotPasswordFind(p, email)
    \/ \E p \in AuthReqs : ForgotPasswordSave(p)
    \/ \E p \in AuthReqs, token \in RawTokens, newPassword \in {"", "abc", "secret2"} :
          ResetPasswordFind(p, token, newPassword)
    \/ \E p \in AuthReqs : ResetPasswordSave(p)

SpecReset == Init /\ [][NextReset]_vars

\* The device registry: logins with the right password from any device,
\* logouts and device removals, within one clock instant.
NextDevices ==
    \/ \E p \in AuthReqs, u \in Users : \E deviceId \in KnownOrNext(u) :
          LoginUserFind(p, u, InitialPassword, deviceId)
    \/ \E p \in AuthReqs : LoginUserMatchPassword(p)
    \/ \E p \in AuthReqs : LoginUserRegisterDevice(p)
    \/ \E p \in AuthReqs, token \in tokens, deviceId \in 0..MaxDeviceIds :
          Protect(p, "logoutUser", Some(token), "", "", deviceId)
    \/ \E p \in AuthReqs : LogoutUser(p)
    \/ \E p \in AuthReqs, token \in tokens, deviceId \in DeviceIds :
          Protect(p, "removeDevice", Some(token), "", "", deviceId)
    \/ \E p \in AuthReqs : RemoveDeviceFind(p)
    \/ \E p \in AuthReqs : RemoveDevicePull(p)

SpecDevices == Init /\ [][NextDevices]_vars

\* Logouts of two accounts that log in from two devices each.
Accounts == {"u1", "u2"}

InitAccounts ==
    /\ now = 0
    /\ attendance = << >>
    /\ offices = << >>
    /\ attReq = [p \in AttReqs |-> IdleReq]
    /\ users = [u \in Accounts |-> NewUser]
    /\ authReq = [p \in AuthReqs |-> IdleAuthReq]
    /\ issued = 0
    /\ tokens = {}
    /\ geo = NoMeasure

NextLogout ==
    \/ \E p \in AuthReqs, u \in Accounts :
          \E deviceId \in KnownOrNext(u) \cap 1..2 :
             LoginUserFind(p, u, InitialPassword, deviceId)
    \/ \E p \in AuthReqs : LoginUserMatchPassword(p)
    \/ \E p \in AuthReqs : LoginUserRegisterDevice(p)
    \/ \E p \in AuthReqs, token \in tokens, deviceId \in 0..2 :
          Protect(p, "logoutUser", Some(token), "", "", deviceId)
    \/ \E p \in AuthReqs : LogoutUser(p)

SpecLogout == InitAccounts /\ [][NextLogout]_vars

\* Password resets over the lifetime of a reset token, next to logins
\* with the password that the resets set.
NextExpiry ==
    \/ \E p \in AuthReqs, u \in Users : LoginUserFind(p, u, "secret2", 1)
    \/ \E p \in AuthReqs : LoginUserMatchPassword(p)
    \/ \E p \in AuthReqs : LoginUserRefresh(p)
    \/ \E p \in AuthReqs : LoginUserRegisterDevice(p)
    \/ \E p \in AuthReqs, email \in Emails : ForgotPasswordFind(p, email)
    \/ \E p \in AuthReqs : ForgotPasswordSave(p)
    \/ \E p \in AuthReqs, token \in RawTokens, newPassword \in {"abc", "secret2"} :
          ResetPasswordFind(p, token, newPassword)
    \/ \E p \in AuthReqs : ResetPasswordSave(p)
    \/ AuthTick

SpecExpiry == Init /\ [][NextExpiry]_vars

\* The earlier credential controller: logins, which nothing stops from
\* counting failures, up to MaxLegacyFailures of them, and resets whose
\* lookup and token are those of the current one.
NextLegacyReset ==
    \/ \E p \in AuthReqs, email \in Emails, password \in {"", "secret1", "secret2"} :
          /\ email \in Users => users[email].loginAttempts < MaxLegacyFailures
          /\ LegacyLoginUserFind(p, email, password)
    \/ \E p \in AuthReqs : LegacyLoginUserMatchPassword(p)
    \/ \E p \in AuthReqs, email \in Emails : ForgotPasswordFind(p, email)
    \/ \E p \in AuthReqs : ForgotPasswordSave(p)
    \/ \E p \in AuthReqs, token \in RawTokens, newPassword \in {"", "abc", "secret2"} :
          ResetPasswordFind(p, token, newPassword)
    \/ \E p \in AuthReqs : LegacyResetPasswordSave(p)

SpecLegacyReset == Init /\ [][NextLegacyReset]_vars

\* The role gates: an account created with any role, logins, role
\* changes, and requests to routes behind admin and behind manager.
Roles == {"employee", "admin", "manager"}

InitGates ==
    /\ now = 0
    /\ attendance = << >>
    /\ offices = << >>
    /\ attReq = [p \in AttReqs |-> IdleReq]
    /\ \E role \in Roles : users = [u \in Users |-> [NewUser EXCEPT !.role = role]]
    /\ authReq = [p \in AuthReqs |-> IdleAuthReq]
    /\ issued = 0
    /\ tokens = {}
    /\ geo = NoMeasure

NextGates ==
    \/ \E p \in AuthReqs, u \in Users, password \in {"secret1", "secret2"} :
          LoginUserFind(p, u, password, 1)
    \/ \E p \in AuthReqs : LoginUserMatchPassword(p)
    \/ \E p \in AuthReqs : LoginUserRefresh(p)
    \/ \E p \in AuthReqs : LoginUserRegisterDevice(p)
    \/ \E u \in Users, role \in Roles : UpdateAdminAccount(u, role)
    \/ \E p \in AuthReqs, bearer \in Bearers,
          op \in {"adminRoute", "managerRoute"} :
          Protect(p, op, bearer, "", "", 0)
    \/ \E p \in AuthReqs : Admin(p)
    \/ \E p \in AuthReqs : Manager(p)
    \/ \E p \in AuthReqs : RouteHandler(p)

SpecGates == InitGates /\ [][NextGates]_vars

\* Sessions: logins with the first password that hand out tokens,
\* password changes through the profile, and the administrator's switch,
\* over a clock of half seconds.
SessionSteps ==
    \/ \E p \in AuthReqs, u \in Users : LoginUserFind(p, u, InitialPassword, 1)
    \/ \E p \in AuthReqs : LoginUserMatchPassword(p)
    \/ \E p \in AuthReqs : LoginUserRefresh(p)
    \/ \E p \in AuthReqs : LoginUserRegisterDevice(p)
    \/ \E p \in AuthReqs : UpdateUserProfileFind(p)
    \/ \E p \in AuthReqs : UpdateUserProfileMatchPassword(p)
    \/ \E p \in AuthReqs : UpdateUserProfileSave(p)
    \/ \E u \in Users : ToggleEmployeeStatus(u)
    \/ SessionTick

NextSession ==
    \/ \E p \in AuthReqs, bearer \in Bearers :
          Protect(p, "updateUserProfile", bearer, "secret1", "secret2", 0)
    \/ SessionSteps

SpecSession == Init /\ [][NextSession]_vars

\* The same sessions behind the earlier protect.
NextLegacySession ==
    \/ \E p \in AuthReqs, bearer \in Bearers :
          LegacyProtect(p, "updateUserProfile", bearer, "secret1", "secret2", 0)
    \/ SessionSteps

SpecLegacySession == Init /\ [][NextLegacySession]_vars

\* Logins with the right and with a wrong password, for the account and
\* for an address nobody registered, from any device, next to the
\* administrator's switch, within one clock instant.
NextLogin ==
    \/ \E p \in AuthReqs, email \in {"u1", "nobody"},
          password \in {"secret1", "secret2"}, deviceId \in KnownOrNext("u1") :
          LoginUserFind(p, email, password, deviceId)
    \/ \E p \in AuthReqs : LoginUserMatchPassword(p)
    \/ \E p \in AuthReqs : LoginUserRefresh(p)
    \/ \E p \in AuthReqs : LoginUserRegisterDevice(p)
    \/ \E u \in Users : ToggleEmployeeStatus(u)

SpecLogin == Init /\ [][NextLogin]_vars

\* Everything that writes to an account, within one clock instant:
\* logins, logouts and device removals from one device, profile updates
\* with and without a new password, password resets, and the
\* administrator's employee update.
NextPassword ==
    \/ \E p \in AuthReqs, u \in Users, password \in {"secret1", "secret2"} :
          LoginUserFind(p, u, password, 1)
    \/ \E p \in AuthReqs : LoginUserMatchPassword(p)
    \/ \E p \in AuthReqs : LoginUserRefresh(p)
    \/ \E p \in AuthReqs : LoginUserRegisterDevice(p)
    \/ \E p \in AuthReqs, token \in tokens, password \in {"secret1", "secret2"},
          newPassword \in {"", "secret2"} :
          Protect(p, "updateUserProfile", Some(token), password, newPassword, 0)
    \/ \E p \in AuthReqs : UpdateUserProfileFind(p)
    \/ \E p \in AuthReqs : UpdateUserProfileMatchPassword(p)
    \/ \E p \in AuthReqs : UpdateUserProfileSave(p)
    \/ \E p \in AuthReqs, token \in tokens, deviceId \in {0, 1} :
          Protect(p, "logoutUser", Some(token), "", "", deviceId)
    \/ \E p \in AuthReqs : LogoutUser(p)
    \/ \E p \in AuthReqs, token \in tokens :
          Protect(p, "removeDevice", Some(token), "", "", 1)
    \/ \E p \in AuthReqs : RemoveDeviceFind(p)
    \/ \E p \in AuthReqs : RemoveDevicePull(p)
    \/ \E p \in AuthReqs, u \in Users : ForgotPasswordFind(p, u)
    \/ \E p \in AuthReqs : ForgotPasswordSave(p)
    \/ \E p \in AuthReqs, token \in 1..MaxResetTokens :
          ResetPasswordFind(p, token, "secret2")
    \/ \E p \in AuthReqs : ResetPasswordSave(p)
    \/ \E u \in Users, password \in {"abc", "secret2"} :
          UpdateEmployeeDetails(u, password)

SpecPassword == Init /\ [][NextPassword]_vars

\* =============================================================== claims
CheckInOps == {"checkIn", "legacyCheckIn"}

CheckOutOps == {"checkOut", "legacyCheckOut"}

\* Request p leaves program point pc in this step.
Leaves(p, ops, pc) ==
    /\ attReq[p].op \in ops
    /\ attReq[p].pc = pc
    /\ attReq'[p].pc # pc

AlreadyCheckedIn(resp) ==
    /\ resp.status = 400
    /\ resp.code \in {"ALREADY_CHECKED_IN", "Already checked in today"}

\* C1: once the day's record exists, a check-in that looks the day up
\* afterwards is rejected as already checked in, whether the record is
\* checked-in or checked-out, and the store is left as it was.
C1_LaterCheckInRejected ==
    [][\A p \in AttReqs :
          (/\ Leaves(p, CheckInOps, "findExisting")
           /\ MatchingIds(attReq[p].user, attReq[p].today) # {})
          => /\ attReq'[p].pc = "done"
             /\ AlreadyCheckedIn(attReq'[p].resp)
             /\ attendance' = attendance]_vars

\* C2: the store never holds two records for one (account, date),
\* however concurrent check-ins interleave.
C2_OneRecordPerDay ==
    \A i, j \in 1..Len(attendance) :
        (attendance[i].userId = attendance[j].userId
            /\ attendance[i].date = attendance[j].date) => i = j

\* C3: the attendance state of an (account, date) only moves absent ->
\* checked-in -> checked-out: a check-out that finds no record answers
\* NOT_CHECKED_IN, a record is created checked-in, a checked-out record
\* never becomes checked-in again, and no record is created for a day
\* that already has a checked-out record.
C3_ForwardOnly ==
    [][/\ \A p \in AttReqs :
            (/\ Leaves(p, {"checkOut"}, "findRecord")
             /\ MatchingIds(attReq[p].user, attReq[p].today) = {})
            => attReq'[p].resp = Response(400, "NOT_CHECKED_IN")
       /\ \A i \in 1..Len(attendance) :
            /\ i \in 1..Len(attendance')
            /\ attendance[i].status = "checked-out"
                 => attendance'[i].status = "checked-out"
       /\ \A i \in 1..Len(attendance') :
            i > Len(attendance)
            => /\ attendance'[i].status = "checked-in"
               /\ \A j \in MatchingIds(attendance'[i].userId, attendance'[i].date) :
                     attendance[j].status # "checked-out"]_vars

\* C4: of the check-outs racing on one checked-in record exactly one
\* succeeds: a check-out is written only to a record that is still
\* checked-in, and what a check-out wrote is never overwritten.
C4_SingleCheckOut ==
    [][/\ \A p \in AttReqs :
            Leaves(p, CheckOutOps, "save")
            => attendance[attReq[p].id].status = "checked-in"
       /\ \A i \in 1..Len(attendance) :
            attendance[i].status = "checked-out"
            => attendance'[i] = attendance[i]]_vars

\* ---------------------------------------------------------- credentials
\* The persisted lockUntil of account u lies in the future.
LockInFuture(u) ==
    /\ users[u].lockUntil # None
    /\ users[u].lockUntil[1] > now

\* Request p runs matchPassword in this step and the password is wrong.
FailsPassword(p) ==
    /\ authReq[p].op \in {"loginUser", "updateUserProfile"}
    /\ authReq[p].pc = "matchPassword"
    /\ authReq'[p].pc # "matchPassword"
    /\ ~Compare(authReq[p].password, authReq[p].doc.password)

\* Request p runs matchPassword in this step and the password is right.
PassesPassword(p) ==
    /\ authReq[p].op \in {"loginUser", "updateUserProfile"}
    /\ authReq[p].pc = "matchPassword"
    /\ authReq'[p].pc # "matchPassword"
    /\ Compare(authReq[p].password, authReq[p].doc.password)

\* C5: a failed login that was loaded after every earlier attempt had
\* completed adds one to loginAttempts; the failure that makes it 5 sets
\* lockUntil to its own time plus 30 minutes, an earlier one leaves it
\* null; isLocked is true at every time before lockUntil and false from
\* lockUntil on.
C5_FifthFailureLocks ==
    [][/\ \A p \in AuthReqs :
            (/\ FailsPassword(p)
             /\ authReq[p].doc.loginAttempts
                    = users[authReq[p].user].loginAttempts)
            => /\ users'[authReq[p].user].loginAttempts
                    = users[authReq[p].user].loginAttempts + 1
               /\ users'[authReq[p].user].loginAttempts >= 5
                    => users'[authReq[p].user].lockUntil
                          = Some(now + 30 * 60 * 1000)
               /\ users'[authReq[p].user].loginAttempts < 5
                    => users'[authReq[p].user].lockUntil = None
       /\ \A u \in Users :
            users'[u].lockUntil # None
            => (IsLocked(users'[u], now') <=> now' < users'[u].lockUntil[1])]_vars

\* The account went through five failures and its lock window has passed.
C5_Witness ==
    \E u \in Users :
        /\ users[u].loginAttempts = 5
        /\ users[u].lockUntil # None
        /\ now >= users[u].lockUntil[1]
        /\ ~IsLocked(users[u], now)

C7_NoLostIncrement ==
    [][\A p \in AuthReqs :
          FailsPassword(p)
          => users'[authReq[p].user].loginAttempts
                = users[authReq[p].user].loginAttempts + 1]_vars

\* C8: matchPassword with the right password on an account with fewer
\* than 5 recorded failures sets loginAttempts = 0, lockUntil = null and
\* lastLoginAt = now in one update, after which the account is not
\* locked.
C8_SuccessResets ==
    [][\A p \in AuthReqs :
          (/\ PassesPassword(p)
           /\ users[authReq[p].user].loginAttempts < 5)
          => /\ users'[authReq[p].user].loginAttempts = 0
             /\ users'[authReq[p].user].lockUntil = None
             /\ users'[authReq[p].user].lastLoginAt = Some(now)
             /\ users'[authReq[p].user] =
                    [users[authReq[p].user] EXCEPT
                        !.loginAttempts = 0, !.lockUntil = None,
                        !.lastLoginAt = Some(now)]
             /\ ~IsLocked(users'[authReq[p].user], now')]_vars

\* A login that was loaded after 1 to 4 failures has just matched.
C8_Witness ==
    \E p \in AuthReqs :
        /\ At(p, "loginUser", "registerDevice")
        /\ authReq[p].doc.loginAttempts \in 1..4
        /\ users[authReq[p].user].loginAttempts = 0
        /\ users[authReq[p].user].lockUntil = None
        /\ users[authReq[p].user].lastLoginAt = Some(now)

\* C9: in every stored account state lockUntil is non-null exactly when
\* loginAttempts >= 5.
C9_LockIffThreshold ==
    \A u \in Users :
        (users[u].lockUntil # None) <=> (users[u].loginAttempts >= 5)

\* C10: the stored device list never holds more than 3 entries, and a
\* registerDevice that reports the limit leaves the list as it was.
C10_AtMostThreeDevices ==
    \A u \in Users : Len(users[u].devices) <= 3

\* C11: the deviceIds of one account's stored device list are pairwise
\* distinct, however logins interleave.
C11_DistinctDeviceIds ==
    \A u \in Users : \A i, j \in 1..Len(users[u].devices) :
        users[u].devices[i].deviceId = users[u].devices[j].deviceId => i = j

\* Request p runs registerDevice in this step.
RegistersDevice(p) ==
    /\ authReq[p].op = "loginUser"
    /\ authReq[p].pc = "registerDevice"
    /\ authReq'[p].pc # "registerDevice"

\* The deviceId is one of the entries of devices.
Registered(devices, deviceId) ==
    \E i \in 1..Len(devices) : devices[i].deviceId = deviceId

\* C12: a login with the right password that found 3 devices on the
\* account, none of them its own, is answered 400 MAX_DEVICES_REACHED
\* (no token) and leaves the stored device list exactly as it was.
C12_FourthDeviceRefused ==
    [][\A p \in AuthReqs :
          (/\ RegistersDevice(p)
           /\ Len(authReq[p].doc.devices) = 3
           /\ ~Registered(authReq[p].doc.devices, authReq[p].deviceId))
          => /\ authReq'[p].pc = "done"
             /\ authReq'[p].resp = Response(400, "MAX_DEVICES_REACHED")
             /\ users'[authReq[p].user].devices
                    = users[authReq[p].user].devices]_vars

\* A login from a fourth device was just refused and three remain.
C12_Witness ==
    \E p \in AuthReqs :
        /\ authReq[p].op = "loginUser"
        /\ authReq[p].resp = Response(400, "MAX_DEVICES_REACHED")
        /\ authReq[p].user \in Users
        /\ Len(users[authReq[p].user].devices) = 3

\* Request p is taken through protect in this step.
PassesProtect(p) ==
    /\ authReq[p].pc = "done"
    /\ authReq'[p].op = "updateUserProfile"
    /\ authReq'[p].bearer # None
    /\ authReq'[p].bearer # Some(Garbage)
    /\ authReq'[p] # authReq[p]

\* The token was signed before the password of its account was last
\* changed.
Predates(token) ==
    /\ users[token.id].passwordChangedAt # None
    /\ token.at < users[token.id].passwordChangedAt[1]

\* C13: a request whose token was issued earlier than the passwordChangedAt
\* of its account, the account being active and not locked, is answered
\* 401 PASSWORD_CHANGED by protect and never reaches its handler.
C13_StaleTokenRejected ==
    [][\A p \in AuthReqs :
          (/\ PassesProtect(p)
           /\ Predates(authReq'[p].bearer[1])
           /\ users[authReq'[p].bearer[1].id].isActive
           /\ ~LockInFuture(authReq'[p].bearer[1].id))
          => /\ authReq'[p].pc = "done"
             /\ authReq'[p].resp = Response(401, "PASSWORD_CHANGED")]_vars

\* Request p, a resetPassword, saves and answers 200 in this step.
ResetSucceeds(p) ==
    /\ authReq[p].op = "resetPassword"
    /\ authReq[p].pc = "save"
    /\ authReq'[p].resp = Response(200, "")

\* C14: a raw reset token lets at most one resetPassword succeed: no
\* resetPassword succeeds once the token it presented has been consumed,
\* that is, once it is no longer the stored reset token of the account.
C14_TokenUsedOnce ==
    [][\A p \in AuthReqs :
          ResetSucceeds(p)
          => users[authReq[p].user].passwordResetToken
                 = authReq[p].doc.passwordResetToken]_vars

\* The raw token is the stored reset token of account u.
StoredToken(u, token) ==
    /\ users[u].passwordResetToken = Some(Sha256(token))
    /\ users[u].passwordResetExpires # None

\* C15: a reset token created at instant t expires at t + 15 minutes;
\* resetPassword accepts it only while now is before that instant, and a
\* call at or after it answers 400 INVALID_OR_EXPIRED_TOKEN and leaves
\* every account as it was.
C15_TokenExpires ==
    [][\A p \in AuthReqs :
          /\ (authReq[p].pc = "done" /\ authReq'[p].op = "forgotPassword"
                  /\ authReq'[p].pc = "save")
             => authReq'[p].expires = now + 15 * 60 * 1000
          /\ (authReq[p].pc = "done" /\ authReq'[p].op = "resetPassword"
                  /\ authReq'[p].pc = "save")
             => now < users[authReq'[p].user].passwordResetExpires[1]
          /\ \A u \in Users, token \in 1..MaxResetTokens :
                (/\ StoredToken(u, token)
                 /\ now >= users[u].passwordResetExpires[1]
                 /\ ResetPasswordFind(p, token, "secret2"))
                => /\ authReq'[p].resp = Response(400, "INVALID_OR_EXPIRED_TOKEN")
                   /\ users' = users]_vars

\* A resetPassword was just refused while the account's stored token had
\* run out.
C15_Witness ==
    \E p \in AuthReqs, u \in Users :
        /\ authReq[p].op = "resetPassword"
        /\ authReq[p].resp = Response(400, "INVALID_OR_EXPIRED_TOKEN")
        /\ StoredToken(u, 1)
        /\ now >= users[u].passwordResetExpires[1]

\* C16: right after a successful resetPassword the account holds no
\* reset token and no expiry, loginAttempts is 0 and lockUntil is null.
C16_ResetClearsLockout ==
    [][\A p \in AuthReqs :
          ResetSucceeds(p)
          => /\ users'[authReq[p].user].passwordResetToken = None
             /\ users'[authReq[p].user].passwordResetExpires = None
             /\ users'[authReq[p].user].loginAttempts = 0
             /\ users'[authReq[p].user].lockUntil = None]_vars

\* Request p arrives at protect in this step.
ReachesProtect(p) ==
    /\ authReq[p].pc = "done"
    /\ authReq'[p].op = "updateUserProfile"
    /\ authReq'[p] # authReq[p]

\* The code of the first step of the pipeline that fails for a bearer,
\* "" when none does.
FirstFailure(bearer) ==
    IF bearer = None THEN "NO_TOKEN"
    ELSE IF bearer[1] = Garbage THEN "INVALID_TOKEN"
    ELSE IF Seconds(now) >= Iat(bearer[1]) + 30 * 24 * 60 * 60 THEN "TOKEN_EXPIRED"
    ELSE IF bearer[1].id \notin Users THEN "USER_NOT_FOUND"
    ELSE IF ~users[bearer[1].id].isActive THEN "ACCOUNT_INACTIVE"
    ELSE IF LockInFuture(bearer[1].id) THEN "ACCOUNT_LOCKED"
    ELSE IF /\ users[bearer[1].id].passwordChangedAt # None
            /\ Iat(bearer[1]) < Seconds(users[bearer[1].id].passwordChangedAt[1])
    THEN "PASSWORD_CHANGED"
    ELSE ""

\* C17: protect answers 401 with the code of the first failing step in
\* the order NO_TOKEN, INVALID_TOKEN / TOKEN_EXPIRED, USER_NOT_FOUND,
\* ACCOUNT_INACTIVE, ACCOUNT_LOCKED, PASSWORD_CHANGED, and calls next()
\* with the account attached exactly when no step fails.
C17_ProtectOrder ==
    [][\A p \in AuthReqs :
          ReachesProtect(p)
          => IF FirstFailure(authReq'[p].bearer) = ""
             THEN /\ authReq'[p].pc = "handler"
                  /\ authReq'[p].user = authReq'[p].bearer[1].id
             ELSE /\ authReq'[p].pc = "done"
                  /\ authReq'[p].resp =
                         Response(401, FirstFailure(authReq'[p].bearer))]_vars

\* Request p is decided by its role gate in this step.
Gated(p, op) ==
    /\ authReq[p].op = op
    /\ authReq[p].pc = "handler"
    /\ authReq'[p].pc # "handler"

Forbidden(r) ==
    r.pc = "done" /\ r.resp = Response(403, "INSUFFICIENT_PERMISSIONS")

\* C18: the admin gate calls next() exactly for the role admin and the
\* manager gate exactly for the roles admin and manager; every other
\* request is answered 403 INSUFFICIENT_PERMISSIONS; whoever passes the
\* admin gate would pass the manager gate.
C18_RoleGates ==
    [][\A p \in AuthReqs :
          /\ Gated(p, "adminRoute")
             => /\ authReq'[p].pc = "next" <=> authReq[p].doc.role = "admin"
                /\ authReq'[p].pc # "next" => Forbidden(authReq'[p])
                /\ authReq'[p].pc = "next" => ManagerAllows(Some(authReq[p].doc))
          /\ Gated(p, "managerRoute")
             => /\ authReq'[p].pc = "next"
                      <=> authReq[p].doc.role \in {"admin", "manager"}
                /\ authReq'[p].pc # "next" => Forbidden(authReq'[p])]_vars

\* An admin has passed the manager gate and a request has just been
\* refused by the admin gate.
C18_Witness ==
    \E p, q \in AuthReqs :
        /\ authReq[p].op = "managerRoute"
        /\ authReq[p].pc = "next"
        /\ authReq[p].doc.role = "admin"
        /\ authReq[q].op = "adminRoute"
        /\ Forbidden(authReq[q])

\* C19: an Office check-in that found no record for the day is answered
\* 404 OFFICE_NOT_CONFIGURED when no office is active; otherwise it is
\* answered 400 OUT_OF_OFFICE_RADIUS, with the distance and the radius,
\* exactly when its distance to the active office exceeds the radius, and
\* goes on to create a checked-in record exactly when it does not.
C19_OfficeGeofence ==
    [][\A p \in AttReqs :
          /\ Leaves(p, {"checkIn"}, "findOffice")
             => IF \A i \in 1..Len(offices) : ~offices[i].isActive
                THEN attReq'[p].resp = Response(404, "OFFICE_NOT_CONFIGURED")
                ELSE LET office == offices[FindActiveOffice]
                         distance == CalculateDistance(
                                        attReq[p].latitude, attReq[p].longitude,
                                        office.latitude, office.longitude)
                     IN  /\ office.isActive
                         /\ distance > office.radius
                            <=> attReq'[p].resp =
                                   [status |-> 400, code |-> "OUT_OF_OFFICE_RADIUS",
                                    distance |-> distance,
                                    allowedRadius |-> office.radius]
                         /\ distance <= office.radius
                            <=> attReq'[p].pc = "create"
                         /\ attReq'[p].pc \in {"create", "done"}
          /\ (Leaves(p, {"checkIn"}, "create") /\ attReq[p].workMode = "Office")
             => /\ Len(attendance') = Len(attendance) + 1
                /\ attendance'[Len(attendance')].status = "checked-in"
                /\ attendance'[Len(attendance')].userId = attReq[p].user
                /\ attReq'[p].resp = Response(201, "")]_vars

\* An Office check-in on the boundary of the geofence has created its
\* record while another was just refused as out of radius.
C19_Witness ==
    \E p, q \in AttReqs, i \in 1..Len(attendance), j \in 1..Len(offices) :
        /\ attReq[p].op = "checkIn"
        /\ attReq[p].resp.code = "OUT_OF_OFFICE_RADIUS"
        /\ attReq[p].resp.distance > attReq[p].resp.allowedRadius
        /\ attReq[q].op = "checkIn"
        /\ attReq[q].resp = Response(201, "")
        /\ attendance[i].workMode = "Office"
        /\ offices[j].isActive
        /\ CalculateDistance(attendance[i].checkInLocation[2],
                             attendance[i].checkInLocation[1],
                             offices[j].latitude, offices[j].longitude)
              = offices[j].radius

\* C20: a WFH check-in never reaches the office lookup: when it finds no
\* record for the day it goes straight to the create, which appends a
\* checked-in record whose checkInLocation is the supplied [longitude,
\* latitude] and whose wfhCheckoutRadius is 100, whatever the offices are.
C20_WfhNoGeofence ==
    [][\A p \in AttReqs :
          /\ (attReq'[p].op = "checkIn" /\ attReq'[p].workMode = "WFH")
             => attReq'[p].pc # "findOffice"
          /\ (/\ Leaves(p, {"checkIn"}, "findExisting")
              /\ attReq[p].workMode = "WFH"
              /\ \A i \in 1..Len(attendance) :
                    ~(/\ attendance[i].userId = attReq[p].user
                      /\ attendance[i].date = attReq[p].today))
             => attReq'[p].pc = "create"
          /\ (Leaves(p, {"checkIn"}, "create") /\ attReq[p].workMode = "WFH")
             => /\ Len(attendance') = Len(attendance) + 1
                /\ \A i \in 1..Len(attendance) : attendance'[i] = attendance[i]
                /\ LET created == attendance'[Len(attendance')]
                   IN  /\ created.userId = attReq[p].user
                       /\ created.workMode = "WFH"
                       /\ created.status = "checked-in"
                       /\ created.checkInLocation
                              = <<attReq[p].longitude, attReq[p].latitude>>
                       /\ created.wfhCheckoutRadius = 100
                /\ attReq'[p].resp = Response(201, "")]_vars

\* A WFH check-in was just answered 201 and its record is stored while no
\* office location is active.
C20_Witness ==
    \E p \in AttReqs, i \in 1..Len(attendance) :
        /\ attReq[p].op = "checkIn"
        /\ attReq[p].resp = Response(201, "")
        /\ attendance[i].workMode = "WFH"
        /\ attendance[i].userId = attReq[p].user
        /\ \A j \in 1..Len(offices) : ~offices[j].isActive
        /\ \A j \in 1..Len(attendance) : attendance[j].workMode = "WFH"

\* The record that a checkOut of request p is about: the stored record
\* of its account and day that findOne returns.
Found(p) == attendance[FindAttendance(attReq[p].user, attReq[p].today)]

\* Request p looks its record up in this step and finds it checked-in
\* with the given work mode.
FindsCheckedIn(p, workMode) ==
    /\ Leaves(p, {"checkOut"}, "findRecord")
    /\ FindAttendance(attReq[p].user, attReq[p].today) # 0
    /\ Found(p).status = "checked-in"
    /\ Found(p).workMode = workMode

\* C21: a checkOut of a checked-in WFH record goes on to its save exactly
\* when the supplied coordinates lie within the record's own
\* wfhCheckoutRadius of the record's own checkInLocation, is answered
\* 400 OUT_OF_WFH_RADIUS otherwise, and its save answers 200 and marks
\* the record checked-out; no office location enters the outcome.
C21_WfhAnchor ==
    [][\A p \in AttReqs :
          /\ FindsCheckedIn(p, "WFH")
             => LET distance == CalculateDistance(
                                   attReq[p].latitude, attReq[p].longitude,
                                   Found(p).checkInLocation[2],
                                   Found(p).checkInLocation[1])
                IN  IF distance <= Found(p).wfhCheckoutRadius
                    THEN attReq'[p].pc = "save"
                    ELSE /\ attReq'[p].pc = "done"
                         /\ attReq'[p].resp = Response(400, "OUT_OF_WFH_RADIUS")
          /\ (/\ Leaves(p, {"checkOut"}, "save")
              /\ attendance[attReq[p].id].workMode = "WFH")
             => /\ attReq'[p].resp = Response(200, "")
                /\ attendance'[attReq[p].id].status = "checked-out"]_vars

\* A WFH day was just checked out on the boundary of its radius, at a
\* place the active office's geofence does not cover.
C21_Witness ==
    \E p \in AttReqs, i \in 1..Len(attendance) :
        /\ attReq[p].op = "checkOut"
        /\ attReq[p].resp = Response(200, "")
        /\ attendance[i].workMode = "WFH"
        /\ attendance[i].status = "checked-out"
        /\ CalculateDistance(attendance[i].checkOutLocation[2],
                             attendance[i].checkOutLocation[1],
                             attendance[i].checkInLocation[2],
                             attendance[i].checkInLocation[1])
              = attendance[i].wfhCheckoutRadius
        /\ \E j \in 1..Len(offices) :
              /\ offices[j].isActive
              /\ CalculateDistance(attendance[i].checkOutLocation[2],
                                   attendance[i].checkOutLocation[1],
                                   offices[j].latitude, offices[j].longitude)
                    > offices[j].radius

\* C22: a checkOut of a checked-in Office record looks the active office
\* up when it runs: with none active it is answered 404
\* OFFICE_NOT_CONFIGURED and no record changes; otherwise it goes on to
\* its save exactly when the supplied coordinates lie within that
\* office's current radius of its current coordinates, and the save
\* answers 200 and marks the record checked-out.
C22_OfficeAtCheckOut ==
    [][\A p \in AttReqs :
          /\ FindsCheckedIn(p, "Office") => attReq'[p].pc = "findOffice"
          /\ Leaves(p, {"checkOut"}, "findOffice")
             => IF \A i \in 1..Len(offices) : ~offices[i].isActive
                THEN /\ attReq'[p].resp = Response(404, "OFFICE_NOT_CONFIGURED")
                     /\ attendance' = attendance
                ELSE LET office == offices[FindActiveOffice]
                         distance == CalculateDistance(
                                        attReq[p].latitude, attReq[p].longitude,
                                        office.latitude, office.longitude)
                     IN  IF distance <= office.radius
                         THEN attReq'[p].pc = "save"
                         ELSE /\ attReq'[p].pc = "done"
                              /\ attReq'[p].resp.status = 400
                              /\ attReq'[p].resp.code = "OUT_OF_OFFICE_RADIUS"
          /\ (/\ Leaves(p, {"checkOut"}, "save")
              /\ attendance[attReq[p].id].workMode = "Office")
             => /\ attReq'[p].resp = Response(200, "")
                /\ attendance'[attReq[p].id].status = "checked-out"]_vars

\* An Office day was just checked out on the boundary of the active
\* office's geofence, away from the place of the check-in.
C22_Witness ==
    \E p \in AttReqs, i \in 1..Len(attendance), j \in 1..Len(offices) :
        /\ attReq[p].op = "checkOut"
        /\ attReq[p].resp = Response(200, "")
        /\ attendance[i].userId = attReq[p].user
        /\ attendance[i].workMode = "Office"
        /\ attendance[i].status = "checked-out"
        /\ attendance[i].checkInLocation # attendance[i].checkOutLocation
        /\ offices[j].isActive
        /\ offices[j].radius > 0
        /\ CalculateDistance(attendance[i].checkOutLocation[2],
                             attendance[i].checkOutLocation[1],
                             offices[j].latitude, offices[j].longitude)
              = offices[j].radius

\* C23: in every attendance record the status is checked-out exactly when
\* checkOutTime is set and exactly when the checkOutLocation coordinates
\* are set; a checked-in record has no checkOutTime and workingHours 0.
C23_CheckOutFieldsTogether ==
    \A i \in 1..Len(attendance) :
        /\ (attendance[i].status = "checked-out")
              <=> (attendance[i].checkOutTime # None)
        /\ (attendance[i].checkOutTime # None)
              <=> (attendance[i].checkOutLocation # None)
        /\ attendance[i].status \in {"checked-in", "checked-out"}
        /\ attendance[i].status = "checked-in"
              => /\ attendance[i].checkOutTime = None
                 /\ attendance[i].workingHours = 0

\* One record has been checked out after hours of work while another is
\* still checked-in.
C23_Witness ==
    \E i, j \in 1..Len(attendance) :
        /\ attendance[i].status = "checked-out"
        /\ attendance[i].checkOutTime # None
        /\ attendance[i].workingHours > 0
        /\ attendance[i].checkOutLocation # None
        /\ attendance[j].status = "checked-in"
        /\ attendance[j].checkOutLocation = None

\* C24: what the create wrote of a record (userId, date, workMode,
\* checkInTime, checkInLocation, wfhCheckoutRadius) is changed by no
\* later step, and no step changes any field of a record that is
\* checked-out.
C24_RecordFrame ==
    [][\A i \in 1..Len(attendance) :
          /\ i <= Len(attendance')
          /\ attendance'[i].userId = attendance[i].userId
          /\ attendance'[i].date = attendance[i].date
          /\ attendance'[i].workMode = attendance[i].workMode
          /\ attendance'[i].checkInTime = attendance[i].checkInTime
          /\ attendance'[i].checkInLocation = attendance[i].checkInLocation
          /\ attendance'[i].wfhCheckoutRadius = attendance[i].wfhCheckoutRadius
          /\ attendance[i].status = "checked-out"
                => attendance'[i] = attendance[i]]_vars

\* C25: the save of a checkOut stores as workingHours the span from the
\* record's checkInTime to the checkOutTime stored with it, in hundredths
\* of an hour with a half rounded up; it is not negative, and the
\* workingHours of a checked-out record never change.
C25_WorkingHours ==
    [][/\ \A p \in AttReqs :
            Leaves(p, {"checkOut"}, "save")
            => LET saved == attendance'[attReq[p].id]
                   span == saved.checkOutTime[1] - saved.checkInTime
               IN  /\ saved.workingHours = (span + 18000) \div 36000
                   /\ saved.workingHours >= 0
       /\ \A i \in 1..Len(attendance) :
            attendance[i].status = "checked-out"
            => attendance'[i].workingHours = attendance[i].workingHours]_vars

\* Request p is answered in this step.
Answered(p) ==
    /\ authReq'[p].pc = "done"
    /\ authReq'[p].op # "none"
    /\ authReq[p].pc # "done" \/ authReq[p].op = "none" \/ authReq'[p] # authReq[p]

\* C26: every request answered 401 by protect or by loginUser, and
\* every request answered 403 by the admin or the manager gate, has
\* written at least one entry to the security log when it is answered.
C26_RejectionsAudited ==
    [][\A p \in AuthReqs :
          (/\ Answered(p)
           /\ authReq'[p].resp.status \in {401, 403})
          => authReq'[p].audit # << >>]_vars

\* C27: the radius of every office location lies between 10 and 5000
\* metres, whichever administrator operation wrote it.
C27_RadiusInRange ==
    \A i \in 1..Len(offices) : offices[i].radius \in 10..5000

\* The entries of a device list other than those of device d, in order.
RECURSIVE Without(_, _)
Without(devices, d) ==
    IF devices = << >> THEN << >>
    ELSE IF Head(devices).deviceId = d THEN Without(Tail(devices), d)
    ELSE <<Head(devices)>> \o Without(Tail(devices), d)

\* C28: logoutUser with deviceId d leaves in the caller's device list
\* exactly the entries of other devices, in their order, and changes
\* nothing else of that account and nothing of any other account;
\* without a deviceId it changes no stored state.
C28_LogoutFrame ==
    [][\A p \in AuthReqs :
          (At(p, "logoutUser", "handler") /\ authReq'[p].pc = "done")
          => LET u == authReq[p].user
                 d == authReq[p].deviceId
             IN  /\ users'[u] = [users[u] EXCEPT
                                   !.devices = IF d # 0 THEN Without(@, d) ELSE @]
                 /\ \A v \in DOMAIN users \ {u} : users'[v] = users[v]
                 /\ UNCHANGED <<tokens, attendance, offices>>]_vars

\* A logout has just removed a device from an account that keeps
\* another one, while the other account has a device of that identifier.
C28_Witness ==
    \E p \in AuthReqs, d \in DeviceIds :
        /\ authReq[p].op = "logoutUser"
        /\ authReq[p].resp = Response(200, "")
        /\ LET u == authReq[p].user
           IN  /\ u \in DOMAIN users
               /\ users[u].devices # << >>
               /\ ~HasDevice(users[u].devices, d)
               /\ \E v \in DOMAIN users \ {u} : HasDevice(users[v].devices, d)

\* C29: the distance measured from a place to itself is 0, and the
\* distance measured from one place to another is the distance measured
\* back.
C29_DistanceSymmetric ==
    geo.distance # None
    => /\ geo.distance[1]
             = Haversine(geo.to[1], geo.to[2], geo.from[1], geo.from[2])
       /\ geo.from = geo.to => geo.distance[1] = 0

\* A distance was measured between places that differ in latitude and
\* in longitude.
C29_Witness ==
    /\ geo.distance # None
    /\ geo.from[1] # geo.to[1]
    /\ geo.from[2] # geo.to[2]
    /\ geo.distance[1] > 0

\* Request p is answered with an error in this step.
Rejected(p) ==
    /\ attReq'[p] # attReq[p]
    /\ attReq'[p].pc = "done"
    /\ attReq'[p].op \in {"checkIn", "checkOut"}
    /\ attReq'[p].resp.status >= 400

\* C30: a step that rejects a checkIn or a checkOut leaves every
\* attendance record as it was, and the records change only in the
\* step of a request that is answered 201 or 200.
C30_RejectionsWriteNothing ==
    [][/\ \A p \in AttReqs : Rejected(p) => attendance' = attendance
       /\ attendance' # attendance
          => \E p \in AttReqs :
                /\ attReq[p].pc \in {"create", "save"}
                /\ attReq'[p].pc = "done"
                /\ attReq'[p].resp.status \in {200, 201}]_vars

\* A checkOut was just refused outside the office geofence while its
\* record is checked-in.
C30_Witness ==
    \E p \in AttReqs, i \in 1..Len(attendance) :
        /\ attReq[p].op = "checkOut"
        /\ attReq[p].resp.code = "OUT_OF_OFFICE_RADIUS"
        /\ attendance[i].userId = attReq[p].user
        /\ attendance[i].workMode = "Office"
        /\ attendance[i].status = "checked-in"

\* Request p enters program point pc in this step.
Enters(p, op, pc) ==
    /\ authReq'[p].op = op
    /\ authReq'[p].pc = pc
    /\ authReq[p].pc # pc

\* The loaded device list is full and does not hold the deviceId.
OverLimit(doc, deviceId) ==
    /\ Len(doc.devices) >= 3
    /\ \A i \in 1..Len(doc.devices) : doc.devices[i].deviceId # deviceId

\* C31: loginUser hands out a token only in the request that found the
\* account, found it active and not locked, matched the password and was
\* not told limitReached by registerDevice; and a login whose password
\* did not match leaves the stored device list as it was.
C31_TokenOnlyAfterAllChecks ==
    [][/\ tokens' # tokens
          => \E p \in AuthReqs :
                /\ At(p, "loginUser", "registerDevice")
                /\ ~OverLimit(authReq[p].doc, authReq[p].deviceId)
                /\ authReq'[p].resp = Response(200, "")
                /\ tokens' = tokens \cup {[id |-> authReq[p].user, at |-> now]}
       /\ \A p \in AuthReqs :
            /\ (RegistersDevice(p)
                    /\ OverLimit(authReq[p].doc, authReq[p].deviceId))
               => tokens' = tokens /\ authReq'[p].resp.status # 200
            /\ Enters(p, "loginUser", "registerDevice")
               => /\ At(p, "loginUser", "matchPassword")
                  /\ authReq[p].doc.password = <<"bcrypt", authReq[p].password>>
            /\ Enters(p, "loginUser", "matchPassword")
               => /\ authReq'[p].user \in DOMAIN users
                  /\ users[authReq'[p].user].isActive
                  /\ ~LockInFuture(authReq'[p].user)
            /\ (authReq[p].op = "loginUser" /\ authReq'[p] # authReq[p]
                    /\ authReq[p].pc \in {"matchPassword", "refresh"}
                    /\ authReq'[p].pc \in {"refresh", "done"})
               => users'[authReq[p].user].devices
                     = users[authReq[p].user].devices]_vars

\* A login was just refused at the device limit while a token is out and a
\* login with a wrong password has been counted.
C31_Witness ==
    \E p \in AuthReqs :
        /\ authReq[p].op = "loginUser"
        /\ authReq[p].resp = Response(400, "MAX_DEVICES_REACHED")
        /\ authReq[p].user \in Users
        /\ Len(users[authReq[p].user].devices) = 3
        /\ users[authReq[p].user].loginAttempts > 0
        /\ tokens # {}

\* C32: a login with a wrong password never clears or shortens a lock:
\* when the stored lockUntil is in the future as the failed matchPassword
\* writes, lockUntil is still set afterwards and is not earlier.
C32_LockNeverShortened ==
    [][\A p \in AuthReqs :
          (/\ FailsPassword(p)
           /\ authReq[p].op = "loginUser"
           /\ LockInFuture(authReq[p].user))
          => /\ users'[authReq[p].user].lockUntil # None
             /\ users'[authReq[p].user].lockUntil[1]
                    >= users[authReq[p].user].lockUntil[1]]_vars

\* The first wrong-password login after a lock of five failures has run
\* out counts the sixth failure and locks for another 30 minutes.
RelocksAfterExpiry ==
    \A p \in AuthReqs :
        (/\ FailsPassword(p)
         /\ authReq[p].op = "loginUser"
         /\ users[authReq[p].user].loginAttempts = 5
         /\ authReq[p].doc.loginAttempts = 5
         /\ users[authReq[p].user].lockUntil # None
         /\ users[authReq[p].user].lockUntil[1] <= now)
        => /\ users'[authReq[p].user].loginAttempts = 6
           /\ users'[authReq[p].user].lockUntil = Some(now + 30 * 60 * 1000)

\* The stored counter goes back to 0 only in the step of a login whose
\* password matched or of a resetPassword that succeeded.
ResetsOnlyBySuccess ==
    \A u \in Users :
        (users[u].loginAttempts > 0 /\ users'[u].loginAttempts = 0)
        => \E p \in AuthReqs :
              /\ authReq[p].user = u
              /\ \/ PassesPassword(p) /\ authReq[p].op = "loginUser"
                 \/ ResetSucceeds(p)

\* C33: the expiry of a lock does not reset the failure counter: with
\* loginAttempts = 5 and lockUntil passed, the next wrong-password login
\* makes it 6 and locks for 30 minutes again; loginAttempts returns to 0
\* only through a successful login or a successful password reset.
C33_ExpiryKeepsCounter ==
    [][RelocksAfterExpiry /\ ResetsOnlyBySuccess]_vars

\* The token was signed at or after the last password change of its
\* account.
Postdates(token) ==
    /\ users[token.id].passwordChangedAt # None
    /\ token.at >= users[token.id].passwordChangedAt[1]

\* C34: a token issued by a login that completed after the account's most
\* recent password change is never answered PASSWORD_CHANGED by protect,
\* also when it was issued within the clock second of the change.
C34_FreshTokenNotStale ==
    [][\A p \in AuthReqs :
          (PassesProtect(p) /\ Postdates(authReq'[p].bearer[1]))
          => authReq'[p].resp.code # "PASSWORD_CHANGED"]_vars

\* Protect has admitted a token signed later than the password change, in
\* the same clock second.
C34_Witness ==
    \E p \in AuthReqs :
        /\ authReq[p].pc = "handler"
        /\ authReq[p].bearer # None
        /\ Postdates(authReq[p].bearer[1])
        /\ authReq[p].bearer[1].at > users[authReq[p].user].passwordChangedAt[1]
        /\ (1000 + authReq[p].bearer[1].at) \div 1000
              = (1000 + users[authReq[p].user].passwordChangedAt[1]) \div 1000

\* The password hash or passwordChangedAt of account u changes in this
\* step.
PasswordChanges(u) ==
    \/ users'[u].password # users[u].password
    \/ users'[u].passwordChangedAt # users[u].passwordChangedAt

\* This step is the save of an explicit password change of account u.
ExplicitPasswordChange(u) ==
    \/ \E p \in AuthReqs :
          /\ authReq[p].user = u
          /\ authReq[p].pc = "save"
          /\ authReq'[p].pc = "done"
          /\ \/ authReq[p].op = "updateUserProfile" /\ authReq[p].newPassword # ""
             \/ authReq[p].op = "resetPassword"
    \/ \E password \in {"secret1", "secret2"} : UpdateEmployeeDetails(u, password)

\* Request p, past its first step, takes a step that is no explicit
\* password change.
StepsWithoutNewPassword(p) ==
    /\ authReq[p].pc # "done"
    /\ authReq'[p] # authReq[p]
    /\ \/ authReq[p].op \in {"loginUser", "logoutUser", "removeDevice",
                             "forgotPassword"}
       \/ authReq[p].op = "updateUserProfile" /\ authReq[p].newPassword = ""

\* C35: the stored password hash and passwordChangedAt change only in an
\* explicit password change: updateUserProfile with a new password, after
\* its currentPassword was verified, resetPassword, or the admin's
\* employee update with a password. Every step of loginUser (with
\* registerDevice), logoutUser, removeDevice, forgotPassword and of an
\* updateUserProfile without newPassword leaves both as they were, and
\* with them the answer of changedPasswordAfter for every token handed out.
C35_PasswordFrame ==
    [][/\ \A u \in Users : PasswordChanges(u) => ExplicitPasswordChange(u)
       /\ \A p \in AuthReqs :
            /\ (Enters(p, "updateUserProfile", "save")
                    /\ authReq'[p].newPassword # "")
               => /\ At(p, "updateUserProfile", "matchPassword")
                  /\ authReq[p].doc.password = <<"bcrypt", authReq[p].password>>
            /\ StepsWithoutNewPassword(p)
               => /\ \A u \in Users : ~PasswordChanges(u)
                  /\ \A token \in tokens :
                        ChangedPasswordAfter(users'[token.id], Iat(token))
                           <=> ChangedPasswordAfter(users[token.id], Iat(token))]_vars

\* A profile update without a new password has just been saved on an
\* account that has a device and a reset token and whose password was
\* never changed.
C35_Witness ==
    \E p \in AuthReqs :
        /\ authReq[p].op = "updateUserProfile"
        /\ authReq[p].resp = Response(200, "")
        /\ users[authReq[p].user].passwordChangedAt = None
        /\ users[authReq[p].user].password = <<"bcrypt", "secret1">>
        /\ users[authReq[p].user].devices # << >>
        /\ users[authReq[p].user].passwordResetToken # None
        /\ users[authReq[p].user].lastLoginAt # None

\* resetPassword's lookup finds the account doc for the raw token at
\* instant t.
Accepts(doc, token, t) ==
    /\ doc.passwordResetToken = <<(<<"sha256", token>>)>>
    /\ doc.passwordResetExpires # None
    /\ doc.passwordResetExpires[1] > t

\* Request p, a forgotPassword, saves in this step.
ForgotSaves(p) ==
    /\ authReq[p].op = "forgotPassword"
    /\ authReq[p].pc = "save"
    /\ authReq'[p].pc = "done"

\* C36: at most one reset token is valid per account at any time: once a
\* further forgotPassword for the account has saved, resetPassword
\* accepts no raw token of an earlier call, and the stored expiry is the
\* instant of the later call plus 15 minutes.
C36_OneResetToken ==
    [][/\ \A u \in Users :
            Cardinality({token \in 1..MaxResetTokens :
                            Accepts(users'[u], token, now')}) <= 1
       /\ \A p \in AuthReqs :
            ForgotSaves(p)
            => /\ \A token \in 1..MaxResetTokens :
                     token # authReq[p].token
                     => ~Accepts(users'[authReq[p].user], token, now')
               /\ users'[authReq[p].user].passwordResetExpires
                     = <<authReq[p].expires>>]_vars

\* Request p answers a logout in this step.
LogsOut(p) ==
    /\ authReq[p].op = "logoutUser"
    /\ authReq[p].pc = "handler"
    /\ authReq'[p].pc = "done"

\* Request p is taken through protect in this step, carrying the token.
Presents(p, token) ==
    /\ authReq[p].pc = "done"
    /\ authReq'[p] # authReq[p]
    /\ authReq'[p].bearer = <<token>>

\* Nothing that protect tests stands against the token.
InGoodStanding(token) ==
    /\ (1000 + now) \div 1000
          < (1000 + token.at) \div 1000 + 30 * 24 * 60 * 60
    /\ token.id \in DOMAIN users
    /\ users[token.id].isActive
    /\ ~LockInFuture(token.id)
    /\ ~Predates(token)

\* C37: logoutUser does not revoke the bearer token: a logout, with or
\* without deviceId, leaves the token in force and touches nothing that
\* protect tests, and protect admits every unexpired token whose account
\* is active, not locked and has not changed its password since, however
\* many logouts went before.
C37_LogoutKeepsToken ==
    [][\A p \in AuthReqs :
          /\ LogsOut(p)
             => /\ authReq'[p].resp = Response(200, "")
                /\ tokens' = tokens
                /\ authReq[p].bearer[1] \in tokens'
                /\ \A u \in DOMAIN users :
                      /\ users'[u].isActive = users[u].isActive
                      /\ users'[u].lockUntil = users[u].lockUntil
                      /\ users'[u].password = users[u].password
                      /\ users'[u].passwordChangedAt = users[u].passwordChangedAt
          /\ \A token \in tokens :
                (Presents(p, token) /\ InGoodStanding(token))
                => /\ authReq'[p].pc = "handler"
                   /\ authReq'[p].user = token.id]_vars

\* Protect has admitted the token of an account that logged in and then
\* logged its only device out.
C37_Witness ==
    \E p \in AuthReqs :
        /\ authReq[p].pc = "handler"
        /\ authReq[p].bearer # None
        /\ authReq[p].bearer[1] \in tokens
        /\ users[authReq[p].user].lastLoginAt # None
        /\ users[authReq[p].user].devices = << >>
        /\ \A q \in AuthReqs : q # p => authReq[q].pc = "done"

\* A checkOut arrives in slot p in this step.
CheckOutArrives(p) ==
    /\ attReq[p].pc = "done"
    /\ attReq'[p].op = "checkOut"
    /\ attReq'[p] # attReq[p]

\* A checkOut looks records up under the calendar date of its arrival,
\* and whatever it goes on to act on is a record of that date.
LooksUpCurrentDate ==
    \A p \in AttReqs :
        /\ (CheckOutArrives(p) /\ attReq'[p].pc # "done")
           => attReq'[p].today = now \div (24 * 60 * 60 * 1000)
        /\ (Leaves(p, {"checkOut"}, "findRecord") /\ attReq'[p].pc # "done")
           => attendance[attReq'[p].id].date = attReq[p].today
        /\ (Leaves(p, {"checkOut"}, "findRecord") /\ attReq'[p].pc = "done"
              /\ \A i \in 1..Len(attendance) :
                    attendance[i].userId = attReq[p].user
                    => attendance[i].date # attReq[p].today)
           => attReq'[p].resp = Response(400, "NOT_CHECKED_IN")

\* A record of a day gone by that is still checked-in stays as it is.
PastRecordsStayOpen ==
    \A i \in 1..Len(attendance) :
        (/\ attendance[i].status = "checked-in"
         /\ attendance[i].date < now \div (24 * 60 * 60 * 1000))
        => /\ attendance'[i].status = "checked-in"
           /\ attendance'[i].checkOutTime = None

\* C38: checkOut only ever looks up the record of the current calendar
\* date: once the date has advanced past D while the record of D is
\* still checked-in, every later checkOut fails NOT_CHECKED_IN or acts
\* on a record of the new date, and the record of D stays checked-in
\* with checkOutTime = null for ever.
C38_StaleRecordStaysOpen ==
    [][LooksUpCurrentDate /\ PastRecordsStayOpen]_vars

\* C39: checkIn and checkOut answer MISSING_LOCATION only when latitude
\* or longitude is absent from the body: a request with numeric
\* coordinates, latitude 0 or longitude 0 included, passes the coordinate
\* validation. Every latitude and longitude of the model is a number.
C39_ZeroIsACoordinate ==
    [][\A p \in AttReqs, u \in Users, lat \in 0..MaxLat, lng \in {0, Meridian} :
          /\ \A wm \in {"Office", "WFH", "Remote"} :
                CheckInStart(p, u, lat, lng, wm)
                => attReq'[p].resp.code # "MISSING_LOCATION"
          /\ CheckOutStart(p, u, lat, lng)
             => attReq'[p].resp.code # "MISSING_LOCATION"]_vars

====
